---- MODULE Spec2Model ----
(***************************************************************************)
(* Model of the DuoPrincess MSG <-> TXT tools (Tools/duomsgEN.pyw and      *)
(* Tools/duomsgJP (Experimental).pyw).                                     *)
(*                                                                         *)
(* A text is a sequence of code points, a container is a sequence of       *)
(* bytes, a block of code units is a sequence of 16-bit integers.          *)
(***************************************************************************)
EXTENDS Integers, Sequences, FiniteSets, TLC

VARIABLES
  pc,                      \* position of the current operation sequence
  TAG_NEWLINES,            \* setting: show newline tags in the TXT
  DEFAULT_ENCODE_NEWLINE,  \* setting: code of an untagged line break
  ENCODE_UNKNOWN_POLICY,   \* setting: what the mapped encoder does with an unknown glyph
  text, units,             \* Latin codec: the input text / its code units
  text_rt, units_rt,       \* Latin codec: the text / the units after a round trip
  blocks,                  \* document: the list of block texts given
  msg,                     \* document: the container encoded from them
  txt,                     \* document: the TXT document text
  parts,                   \* document: the blocks split from the TXT
  msg_rt,                  \* document: the container encoded from the TXT
  file_bytes,              \* parsing: the bytes of a file given as a container
  res,                     \* parsing: what the operation returned or raised
  fs,                      \* training: the files, by path
  log,                     \* training: the lines logged by the last training
  jp_blocks,               \* training: the block texts decoded with the mapping
  jp_msg,                  \* training: the container encoded with the mapping
  in_blocks,               \* codec: the block texts given to an encoder
  in_units,                \* codec: the code units of the blocks of a container
  out_blocks,              \* codec: the block texts decoded from the container
  out,                     \* codec: what the encoder or decoder returned or raised
  ops,                     \* drops: the operations run so far on the folder
  al_units,                \* alignment: msg_blocks_units, the units of each block
  al_texts,                \* alignment: txt_blocks, the reference text of each block
  al_b,                    \* alignment: the number of block pairs taken from zip
  al_ref,                  \* alignment: ref, the reference of the block without tags
  al_i,                    \* alignment: the number of units of the block gone through
  al_j,                    \* alignment: j, the cursor into ref
  al_counts,               \* alignment: the observations counted, in order
  al_learned               \* alignment: the tables returned

latinVars == <<text, units, text_rt, units_rt>>
docVars == <<blocks, msg, txt, parts, msg_rt>>
settingVars == <<TAG_NEWLINES, DEFAULT_ENCODE_NEWLINE, ENCODE_UNKNOWN_POLICY>>
parseVars == <<file_bytes, res>>
trainVars == <<fs, log, jp_blocks, jp_msg>>
codecVars == <<in_blocks, in_units, out_blocks, out>>
dropVars == <<ops>>
alignVars == <<al_units, al_texts, al_b, al_ref, al_i, al_j, al_counts, al_learned>>
vars == <<pc, settingVars, latinVars, docVars, parseVars, trainVars, codecVars, dropVars,
         alignVars>>

\* the variables each specification leaves alone
notLatin == <<docVars, parseVars, trainVars, codecVars, dropVars, alignVars>>
notDoc == <<latinVars, parseVars, trainVars, codecVars, dropVars, alignVars>>
notParse == <<latinVars, docVars, trainVars, codecVars, dropVars, alignVars>>
notTrain == <<latinVars, docVars, parseVars, codecVars, dropVars, alignVars>>
notCodec == <<latinVars, docVars, parseVars, trainVars, dropVars, alignVars>>
notDrop == <<latinVars, docVars, parseVars, codecVars, jp_blocks, jp_msg, alignVars>>
notAlign == <<settingVars, latinVars, docVars, parseVars, trainVars, codecVars, dropVars>>

(***************************************************************************)
(* Bounds of the model.                                                    *)
(***************************************************************************)
MaxTextLen == 4
MaxUnitsLen == 3
MaxDocLen == 4
MaxCount == 2
MaxEntries == 2
MaxParseUnits == 2
MaxDrop == 3
MaxMsgBlocks == 3
MaxTrainUnits == 2
MaxRefBlocks == 2
MaxRefLen == 2
MaxCodecBlocks == 2
MaxCodecText == 3
MaxCodecUnits == 2
MaxOps == 2
MaxAlignLen == 3

(***************************************************************************)
(* Program constants.                                                      *)
(***************************************************************************)
NEWLINE_000A == 10
NEWLINE_8016 == 32790

LF == 10
\* duomsgEN.pyw settings
EN_BLOCK_SEPARATOR == <<35, 35, 35>>
EN_NL_TAG_8016 == <<47, 110>>
EN_NL_TAG_000A == <<47, 110, 110>>

(***************************************************************************)
(* Helpers on sequences.                                                   *)
(***************************************************************************)
SeqsUpTo(S, n) == UNION {[1..k -> S] : k \in 0..n}

\* str.startswith(prefix, i), with i a 0-based index
startswith(s, prefix, i) ==
  /\ i + Len(prefix) <= Len(s)
  /\ \A k \in 1..Len(prefix) : s[i + k] = prefix[k]

\* the test of a tag immediately followed by a line break at 0-based index i
TagThenNewline(s, tag, i) ==
  /\ startswith(s, tag, i)
  /\ i + Len(tag) < Len(s)
  /\ s[i + Len(tag) + 1] = LF

(***************************************************************************)
(* duomsgEN.pyw: the Latin rule.                                           *)
(***************************************************************************)
\* EN_decode_unit writing the same tag for both newline codes
EN_decode_unit_one_tag(v, tag_newlines) ==
  IF v = NEWLINE_000A THEN (IF tag_newlines THEN EN_NL_TAG_8016 ELSE <<>>) \o <<LF>>
  ELSE IF v = NEWLINE_8016 THEN (IF tag_newlines THEN EN_NL_TAG_8016 ELSE <<>>) \o <<LF>>
  ELSE IF v >= 128 THEN <<v - 128>>
  ELSE <<v>>

\* one iteration of the loop of _decode_units_to_text
EN_decode_unit(v, tag_newlines) ==
  IF v = NEWLINE_000A THEN (IF tag_newlines THEN EN_NL_TAG_000A ELSE <<>>) \o <<LF>>
  ELSE IF v = NEWLINE_8016 THEN (IF tag_newlines THEN EN_NL_TAG_8016 ELSE <<>>) \o <<LF>>
  ELSE IF v >= 128 THEN <<v - 128>>
  ELSE <<v>>

RECURSIVE _decode_units_to_text(_, _)
_decode_units_to_text(us, tag_newlines) ==
  IF us = <<>> THEN <<>>
  ELSE EN_decode_unit(Head(us), tag_newlines)
         \o _decode_units_to_text(Tail(us), tag_newlines)

\* EN_encode_char storing every character raw
EN_encode_char_raw(ch) == ch

\* the code unit of a character that is no line break: lowercase letters are
\* stored as ord + 0x80, everything else as ord
EN_encode_char(ch) ==
  IF 97 <= ch /\ ch <= 122 THEN ch + 128 ELSE ch

\* the while loop of _encode_text_to_units from 0-based index i
RECURSIVE EN_encode_from(_, _, _, _)
EN_encode_from(t, i, tagging, default_newline_code) ==
  IF i >= Len(t) THEN <<>>
  ELSE IF tagging /\ TagThenNewline(t, EN_NL_TAG_8016, i)
    THEN <<NEWLINE_8016>>
           \o EN_encode_from(t, i + Len(EN_NL_TAG_8016) + 1, tagging, default_newline_code)
  ELSE IF tagging /\ TagThenNewline(t, EN_NL_TAG_000A, i)
    THEN <<NEWLINE_000A>>
           \o EN_encode_from(t, i + Len(EN_NL_TAG_000A) + 1, tagging, default_newline_code)
  ELSE LET ch == t[i + 1] IN
    IF ch = LF
      THEN <<default_newline_code>> \o EN_encode_from(t, i + 1, tagging, default_newline_code)
    ELSE <<EN_encode_char(ch)>>
           \o EN_encode_from(t, i + 1, tagging, default_newline_code)

_encode_text_to_units(t, default_newline_code) ==
  EN_encode_from(t, 0, TAG_NEWLINES, default_newline_code)

(***************************************************************************)
(* Results of operations that can raise: err is "" when the operation      *)
(* returned, else the kind of the exception; val is the value returned.    *)
(***************************************************************************)
Ok(v) == [err |-> "", val |-> v]
Raise(e) == [err |-> e, val |-> <<>>]

(***************************************************************************)
(* struct.pack / struct.unpack of big-endian 16-bit integers.              *)
(***************************************************************************)
InU16(v) == 0 <= v /\ v <= 65535

\* struct.pack('>H', v) for v in range
PackH(v) == <<v \div 256, v % 256>>

\* struct.unpack('>H', data[pos:pos+2])[0], pos a 0-based byte offset
UnpackH(data, pos) == data[pos + 1] * 256 + data[pos + 2]

RECURSIVE PackUnits(_)
PackUnits(us) ==
  IF us = <<>> THEN <<>> ELSE PackH(Head(us)) \o PackUnits(Tail(us))

\* struct.unpack(f'>{len(raw)//2}H', raw) for raw of even length
RECURSIVE UnpackUnits(_)
UnpackUnits(raw) ==
  IF Len(raw) < 2 THEN <<>>
  ELSE <<UnpackH(raw, 0)>> \o UnpackUnits(SubSeq(raw, 3, Len(raw)))

\* data[start:end] on bytes, 0-based and clamped as Python slices are
Slice(data, start, end) ==
  LET lo == IF start > Len(data) THEN Len(data) ELSE start
      hi == IF end > Len(data) THEN Len(data) ELSE end
  IN IF hi <= lo THEN <<>> ELSE SubSeq(data, lo + 1, hi)

RECURSIVE SumLens(_)
SumLens(ss) == IF ss = <<>> THEN 0 ELSE Len(Head(ss)) + SumLens(Tail(ss))

RECURSIVE Concat(_)
Concat(ss) == IF ss = <<>> THEN <<>> ELSE Head(ss) \o Concat(Tail(ss))

(***************************************************************************)
(* duomsgEN.pyw: container <-> blocks.                                     *)
(***************************************************************************)
\* entries whose offset is taken after the running offset moved past the block
EntriesAfterAdvance(unitBlocks) ==
  [i \in 1..Len(unitBlocks) |->
     [offset |-> SumLens(SubSeq(unitBlocks, 1, i)), length |-> Len(unitBlocks[i])]]

\* the (offset, length) entries of encode_blocks_to_msg for the blocks' units
EntriesOf(unitBlocks) ==
  [i \in 1..Len(unitBlocks) |->
     [offset |-> SumLens(SubSeq(unitBlocks, 1, i - 1)), length |-> Len(unitBlocks[i])]]

RECURSIVE PackEntries(_)
PackEntries(es) ==
  IF es = <<>> THEN <<>>
  ELSE PackH(Head(es).offset) \o PackH(Head(es).length) \o PackEntries(Tail(es))

\* SerializeMsg declaring the size of the table and the text area only
SerializeMsg_without_header(unitBlocks) ==
  LET all_units == Concat(unitBlocks)
      entries == EntriesOf(unitBlocks)
      body == PackEntries(entries) \o PackUnits(all_units)
  IN IF \E k \in 1..Len(all_units) : ~InU16(all_units[k])
       THEN Raise("struct.error")
     ELSE Ok(PackH(Len(body)) \o PackH(Len(entries)) \o body)

\* the serialization shared by the encoders: text area, table, then the header
\* with the recomputed size; struct.error when a value does not fit 16 bits
SerializeMsg(unitBlocks) ==
  LET all_units == Concat(unitBlocks)
      entries == EntriesOf(unitBlocks)
      text_bytes == PackUnits(all_units)
      header_table == PackEntries(entries)
      full_size == 4 + Len(header_table) + Len(text_bytes)
  IN IF \E k \in 1..Len(all_units) : ~InU16(all_units[k])
       THEN Raise("struct.error")
     ELSE IF \E k \in 1..Len(entries) :
               ~InU16(entries[k].offset) \/ ~InU16(entries[k].length)
       THEN Raise("struct.error")
     ELSE IF ~InU16(full_size) \/ ~InU16(Len(entries))
       THEN Raise("struct.error")
     ELSE Ok(PackH(full_size) \o PackH(Len(entries)) \o header_table \o text_bytes)

encode_blocks_to_msg(bs, default_newline_code) ==
  SerializeMsg([i \in 1..Len(bs) |-> _encode_text_to_units(bs[i], default_newline_code)])

\* ReadEntries asking for one byte more than an entry needs
RECURSIVE ReadEntries_one_more(_, _, _)
ReadEntries_one_more(data, k, count) ==
  IF k >= count THEN Ok(<<>>)
  ELSE IF 4 + 4 * k + 4 >= Len(data) THEN Raise("Truncated block table")
  ELSE LET rest == ReadEntries_one_more(data, k + 1, count) IN
    IF rest.err # "" THEN rest
    ELSE Ok(<<[offset |-> UnpackH(data, 4 + 4 * k),
               length |-> UnpackH(data, 4 + 4 * k + 2)]>> \o rest.val)

\* the table loop of the header parsers, from entry k (0-based) of count
RECURSIVE ReadEntries(_, _, _)
ReadEntries(data, k, count) ==
  IF k >= count THEN Ok(<<>>)
  ELSE IF 4 + 4 * k + 4 > Len(data) THEN Raise("Truncated block table")
  ELSE LET rest == ReadEntries(data, k + 1, count) IN
    IF rest.err # "" THEN rest
    ELSE Ok(<<[offset |-> UnpackH(data, 4 + 4 * k),
               length |-> UnpackH(data, 4 + 4 * k + 2)]>> \o rest.val)

\* the header part of decode_msg_to_blocks: the entries and text_start
EN_read_header(data) ==
  IF Len(data) < 4 THEN Raise("File too small to be a valid MSG")
  ELSE LET count == UnpackH(data, 2)
           es == ReadEntries(data, 0, count)
       IN IF es.err # "" THEN es
          ELSE Ok([entries |-> es.val, text_start |-> 4 + 4 * count])

\* the block loop of decode_msg_to_blocks
RECURSIVE EN_decode_entries(_, _, _, _)
EN_decode_entries(data, text_start, es, tag_newlines) ==
  IF es = <<>> THEN Ok(<<>>)
  ELSE LET e == Head(es)
           start == text_start + e.offset * 2
           end == text_start + (e.offset + e.length) * 2
       IN IF ~(text_start <= start /\ start <= end /\ end <= Len(data))
            THEN Raise("Invalid block offset/length")
          ELSE LET rest == EN_decode_entries(data, text_start, Tail(es), tag_newlines)
                   raw == Slice(data, start, end)
               IN IF rest.err # "" THEN rest
                  ELSE Ok(<<_decode_units_to_text(UnpackUnits(raw), tag_newlines)>>
                            \o rest.val)

decode_msg_to_blocks(data, tag_newlines) ==
  LET h == EN_read_header(data) IN
    IF h.err # "" THEN h
    ELSE EN_decode_entries(data, h.val.text_start, h.val.entries, tag_newlines)

(***************************************************************************)
(* TXT document <-> blocks (the same code in both tools).                  *)
(***************************************************************************)
\* the characters str.splitlines breaks lines at
LineBoundaries == {10, 11, 12, 13, 28, 29, 30, 133, 8232, 8233}

\* the characters str.strip removes
Whitespace == LineBoundaries \cup {9, 31, 32, 160, 5760, 8239, 8287, 12288}
                \cup (8192..8202)

\* str.splitlines(): the lines of s without their line boundaries; "\r\n" is
\* one boundary; no empty last line after a final boundary.  cur holds the
\* characters of the line being read
RECURSIVE SplitLinesFrom(_, _, _)
SplitLinesFrom(s, i, cur) ==
  IF i > Len(s) THEN (IF cur = <<>> THEN <<>> ELSE <<cur>>)
  ELSE IF s[i] \in LineBoundaries
    THEN <<cur>> \o SplitLinesFrom(s,
                      IF s[i] = 13 /\ i < Len(s) /\ s[i + 1] = 10 THEN i + 2 ELSE i + 1,
                      <<>>)
  ELSE SplitLinesFrom(s, i + 1, Append(cur, s[i]))

splitlines(s) == SplitLinesFrom(s, 1, <<>>)

RECURSIVE lstrip(_)
lstrip(s) == IF s # <<>> /\ Head(s) \in Whitespace THEN lstrip(Tail(s)) ELSE s

RECURSIVE rstrip(_)
rstrip(s) ==
  IF s # <<>> /\ s[Len(s)] \in Whitespace THEN rstrip(SubSeq(s, 1, Len(s) - 1)) ELSE s

strip(s) == lstrip(rstrip(s))

\* rstrip_newlines removing all trailing whitespace, as b.rstrip() would
rstrip_any(s) == rstrip(s)

\* b.rstrip('\n')
RECURSIVE rstrip_newlines(_)
rstrip_newlines(s) ==
  IF s # <<>> /\ s[Len(s)] = LF THEN rstrip_newlines(SubSeq(s, 1, Len(s) - 1)) ELSE s

\* sep.join(items)
RECURSIVE join(_, _)
join(sep, items) ==
  IF items = <<>> THEN <<>>
  ELSE IF Len(items) = 1 THEN items[1]
  ELSE items[1] \o sep \o join(sep, Tail(items))

\* the loop of split_txt_into_blocks over the remaining lines
RECURSIVE SplitLoop(_, _, _)
SplitLoop(lines, ps, cur) ==
  IF lines = <<>> THEN [parts |-> ps, cur |-> cur]
  ELSE IF strip(Head(lines)) = EN_BLOCK_SEPARATOR
    THEN SplitLoop(Tail(lines), Append(ps, join(<<LF>>, cur)), <<>>)
  ELSE SplitLoop(Tail(lines), ps, Append(cur, Head(lines)))

split_txt_into_blocks(txt_text) ==
  LET r == SplitLoop(splitlines(txt_text), <<>>, <<>>)
      ps == IF r.cur # <<>> \/ r.parts = <<>>
              THEN Append(r.parts, join(<<LF>>, r.cur))
              ELSE r.parts
  IN IF ps # <<>> /\ ps[Len(ps)] = <<>> /\ Len(ps) > 1
       THEN SubSeq(ps, 1, Len(ps) - 1)
       ELSE ps

make_txt_from_blocks(bs) ==
  join(<<LF>> \o EN_BLOCK_SEPARATOR \o <<LF>>,
       [i \in 1..Len(bs) |-> rstrip_newlines(bs[i])])
    \o <<LF>> \o EN_BLOCK_SEPARATOR \o <<LF>>

(***************************************************************************)
(* duomsgJP (Experimental).pyw: settings and the English rule.             *)
(***************************************************************************)
JP_NL_TAG_8016 == <<60, 78, 76, 95, 56, 48, 49, 54, 62>>
JP_NL_TAG_000A == <<60, 78, 76, 95, 48, 48, 48, 65, 62>>

_is_ascii_printable(u) == (32 <= u /\ u <= 126) \/ u = 9

\* one iteration of the loop of _decode_units_english
JP_decode_unit_english(v, tag_newlines) ==
  IF v = NEWLINE_000A THEN (IF tag_newlines THEN JP_NL_TAG_000A ELSE <<>>) \o <<LF>>
  ELSE IF v = NEWLINE_8016 THEN (IF tag_newlines THEN JP_NL_TAG_8016 ELSE <<>>) \o <<LF>>
  ELSE IF v >= 128 /\ _is_ascii_printable(v - 128) THEN <<v - 128>>
  ELSE <<v>>

RECURSIVE _decode_units_english(_, _)
_decode_units_english(us, tag_newlines) ==
  IF us = <<>> THEN <<>>
  ELSE JP_decode_unit_english(Head(us), tag_newlines)
         \o _decode_units_english(Tail(us), tag_newlines)

(***************************************************************************)
(* duomsgJP (Experimental).pyw: MSG parsing.                               *)
(***************************************************************************)
read_msg_entries_and_textstart(data) ==
  IF Len(data) < 4 THEN Raise("File too small to be a valid MSG")
  ELSE LET count == UnpackH(data, 2)
           es == ReadEntries(data, 0, count)
       IN IF es.err # "" THEN es
          ELSE Ok([entries |-> es.val, text_start |-> 4 + 4 * count])

\* the units of one table entry, as the three block readers compute them: the
\* slice is clamped to the data, and unpacking a slice of odd length raises
JP_entry_units(data, text_start, e) ==
  LET start == text_start + e.offset * 2
      end == text_start + (e.offset + e.length) * 2
      raw == Slice(data, start, end)
  IN IF Len(raw) % 2 # 0 THEN Raise("struct.error") ELSE Ok(UnpackUnits(raw))

\* the units of the entries es in order, or the first exception
RECURSIVE JP_entries_units(_, _, _)
JP_entries_units(data, text_start, es) ==
  IF es = <<>> THEN Ok(<<>>)
  ELSE LET u == JP_entry_units(data, text_start, Head(es)) IN
    IF u.err # "" THEN u
    ELSE LET rest == JP_entries_units(data, text_start, Tail(es)) IN
      IF rest.err # "" THEN rest ELSE Ok(<<u.val>> \o rest.val)

_read_all_blocks_units(data) ==
  LET h == read_msg_entries_and_textstart(data) IN
    IF h.err # "" THEN h
    ELSE JP_entries_units(data, h.val.text_start, h.val.entries)

decode_msg_to_blocks_english(data, tag_newlines) ==
  LET us == _read_all_blocks_units(data) IN
    IF us.err # "" THEN us
    ELSE Ok([i \in 1..Len(us.val) |-> _decode_units_english(us.val[i], tag_newlines)])

(***************************************************************************)
(* duomsgJP (Experimental).pyw: decode and encode through a mapping.       *)
(* unit_to_char maps code units to texts, char_to_unit maps characters to  *)
(* code units.                                                             *)
(***************************************************************************)
HexDigit(d) == IF d < 10 THEN 48 + d ELSE 55 + d

\* f'<U+{u:04X}>' for a 16-bit u
Placeholder(u) ==
  <<60, 85, 43, HexDigit(u \div 4096), HexDigit((u \div 256) % 16),
    HexDigit((u \div 16) % 16), HexDigit(u % 16), 62>>

\* one iteration of the unit loop of decode_msg_to_blocks_with_map
JP_decode_unit_with_map(u, unit_to_char, tag_newlines) ==
  IF u = NEWLINE_000A THEN (IF tag_newlines THEN JP_NL_TAG_000A ELSE <<>>) \o <<LF>>
  ELSE IF u = NEWLINE_8016 THEN (IF tag_newlines THEN JP_NL_TAG_8016 ELSE <<>>) \o <<LF>>
  ELSE IF u \in DOMAIN unit_to_char THEN unit_to_char[u]
  ELSE IF u >= 128 /\ _is_ascii_printable(u - 128) THEN <<u - 128>>
  ELSE Placeholder(u)

RECURSIVE JP_decode_units_with_map(_, _, _)
JP_decode_units_with_map(us, unit_to_char, tag_newlines) ==
  IF us = <<>> THEN <<>>
  ELSE JP_decode_unit_with_map(Head(us), unit_to_char, tag_newlines)
         \o JP_decode_units_with_map(Tail(us), unit_to_char, tag_newlines)

decode_msg_to_blocks_with_map(data, unit_to_char, tag_newlines) ==
  LET us == _read_all_blocks_units(data) IN
    IF us.err # "" THEN us
    ELSE Ok([i \in 1..Len(us.val) |->
               JP_decode_units_with_map(us.val[i], unit_to_char, tag_newlines)])

\* the while loop of encode_blocks_with_map over one block from 0-based index
\* i: the units, or the exception of the 'error' policy
RECURSIVE JP_encode_with_map_from(_, _, _, _)
JP_encode_with_map_from(block, i, char_to_unit, default_newline) ==
  IF i >= Len(block) THEN Ok(<<>>)
  ELSE
    LET step ==
          IF TAG_NEWLINES /\ TagThenNewline(block, JP_NL_TAG_8016, i)
            THEN [emit |-> <<NEWLINE_8016>>, next |-> i + Len(JP_NL_TAG_8016) + 1, err |-> ""]
          ELSE IF TAG_NEWLINES /\ TagThenNewline(block, JP_NL_TAG_000A, i)
            THEN [emit |-> <<NEWLINE_000A>>, next |-> i + Len(JP_NL_TAG_000A) + 1, err |-> ""]
          ELSE LET ch == block[i + 1] IN
            IF ch = LF THEN [emit |-> <<default_newline>>, next |-> i + 1, err |-> ""]
            ELSE IF ch \in DOMAIN char_to_unit
              THEN [emit |-> <<char_to_unit[ch]>>, next |-> i + 1, err |-> ""]
            ELSE IF 97 <= ch /\ ch <= 122
              THEN [emit |-> <<ch + 128>>, next |-> i + 1, err |-> ""]
            ELSE IF ENCODE_UNKNOWN_POLICY = "error"
              THEN [emit |-> <<>>, next |-> i + 1, err |-> "Unknown glyph for encoding"]
            ELSE IF ENCODE_UNKNOWN_POLICY = "placeholder"
              THEN [emit |-> <<63>>, next |-> i + 1, err |-> ""]
            ELSE IF ENCODE_UNKNOWN_POLICY = "skip"
              THEN [emit |-> <<>>, next |-> i + 1, err |-> ""]
            ELSE [emit |-> <<ch>>, next |-> i + 1, err |-> ""]
    IN IF step.err # "" THEN Raise(step.err)
       ELSE LET rest == JP_encode_with_map_from(block, step.next, char_to_unit, default_newline)
            IN IF rest.err # "" THEN rest ELSE Ok(step.emit \o rest.val)

\* the units of the blocks in order, or the first exception
RECURSIVE JP_encode_blocks_units(_, _, _)
JP_encode_blocks_units(bs, char_to_unit, default_newline) ==
  IF bs = <<>> THEN Ok(<<>>)
  ELSE LET u == JP_encode_with_map_from(Head(bs), 0, char_to_unit, default_newline) IN
    IF u.err # "" THEN u
    ELSE LET rest == JP_encode_blocks_units(Tail(bs), char_to_unit, default_newline) IN
      IF rest.err # "" THEN rest ELSE Ok(<<u.val>> \o rest.val)

encode_blocks_with_map(bs, char_to_unit, default_newline) ==
  LET us == JP_encode_blocks_units(bs, char_to_unit, default_newline) IN
    IF us.err # "" THEN us ELSE SerializeMsg(us.val)

\* the while loop of the English-only branch of encode_txt_file_to_msg_path
RECURSIVE JP_encode_english_from(_, _)
JP_encode_english_from(block, i) ==
  IF i >= Len(block) THEN <<>>
  ELSE IF TAG_NEWLINES /\ TagThenNewline(block, JP_NL_TAG_8016, i)
    THEN <<NEWLINE_8016>> \o JP_encode_english_from(block, i + Len(JP_NL_TAG_8016) + 1)
  ELSE IF TAG_NEWLINES /\ TagThenNewline(block, JP_NL_TAG_000A, i)
    THEN <<NEWLINE_000A>> \o JP_encode_english_from(block, i + Len(JP_NL_TAG_000A) + 1)
  ELSE LET ch == block[i + 1] IN
    IF ch = LF THEN <<DEFAULT_ENCODE_NEWLINE>> \o JP_encode_english_from(block, i + 1)
    ELSE IF 97 <= ch /\ ch <= 122 THEN <<ch + 128>> \o JP_encode_english_from(block, i + 1)
    ELSE <<ch>> \o JP_encode_english_from(block, i + 1)

\* the English-only branch of encode_txt_file_to_msg_path
JP_encode_blocks_english(bs) ==
  SerializeMsg([i \in 1..Len(bs) |-> JP_encode_english_from(bs[i], 0)])

(***************************************************************************)
(* duomsgJP (Experimental).pyw: the mapping trainer.                       *)
(***************************************************************************)
\* s.replace(old, ''): the occurrences of old removed, left to right
RECURSIVE RemoveAll(_, _)
RemoveAll(s, old) ==
  IF s = <<>> THEN <<>>
  ELSE IF startswith(s, old, 0) THEN RemoveAll(SubSeq(s, Len(old) + 1, Len(s)), old)
  ELSE <<Head(s)>> \o RemoveAll(Tail(s), old)

_strip_nl_tags_keep_newline(s) ==
  RemoveAll(RemoveAll(s, JP_NL_TAG_8016), JP_NL_TAG_000A)

\* the cursor left where it is
SkipNothing(ref, j) == j

\* while j < len(ref) and ref[j] == '\n': j += 1
RECURSIVE SkipNewlines(_, _)
SkipNewlines(ref, j) ==
  IF j < Len(ref) /\ ref[j + 1] = LF THEN SkipNewlines(ref, j + 1) ELSE j

\* the walk over the units of one block with the cursor j into the reference:
\* the observations (unit, character) in the order they are counted
RECURSIVE AlignFrom(_, _, _)
AlignFrom(ub, ref, j) ==
  IF ub = <<>> THEN <<>>
  ELSE LET u == Head(ub) IN
    IF u \in {NEWLINE_000A, NEWLINE_8016}
      THEN AlignFrom(Tail(ub), ref, IF j < Len(ref) /\ ref[j + 1] = LF THEN j + 1 ELSE j)
    ELSE LET j1 == SkipNewlines(ref, j) IN
      IF j1 >= Len(ref) THEN <<>>
      ELSE <<[u |-> u, ch |-> ref[j1 + 1]]>> \o AlignFrom(Tail(ub), ref, j1 + 1)

\* the observations of all block pairs, in block order
RECURSIVE Observations(_, _)
Observations(msg_blocks_units, txt_blocks) ==
  IF msg_blocks_units = <<>> \/ txt_blocks = <<>> THEN <<>>
  ELSE AlignFrom(Head(msg_blocks_units), _strip_nl_tags_keep_newline(Head(txt_blocks)), 0)
         \o Observations(Tail(msg_blocks_units), Tail(txt_blocks))

\* the keys of a dict in insertion order: the first occurrences in s
RECURSIVE InsertionOrder(_)
InsertionOrder(s) ==
  IF s = <<>> THEN <<>>
  ELSE LET front == InsertionOrder(SubSeq(s, 1, Len(s) - 1))
           x == s[Len(s)]
       IN IF \E k \in 1..Len(front) : front[k] = x THEN front ELSE Append(front, x)

\* the number of observations of ch, whatever the unit
ObsCountAnyUnit(obs, u, ch) == Cardinality({k \in 1..Len(obs) : obs[k].ch = ch})

\* counts[u][ch]
ObsCount(obs, u, ch) == Cardinality({k \in 1..Len(obs) : obs[k].u = u /\ obs[k].ch = ch})

\* the keys of counts, in insertion order
ObsUnits(obs) == InsertionOrder([k \in 1..Len(obs) |-> obs[k].u])

\* the keys of counts[u], in insertion order
ObsCharsOf(obs, u) ==
  LET sel == SelectSeq(obs, LAMBDA o : o.u = u)
  IN InsertionOrder([k \in 1..Len(sel) |-> sel[k].ch])

\* Counter.most_common(1)[0][0]: the first key, in insertion order, of the
\* highest count
MostCommon(keys, cnt) ==
  keys[CHOOSE i \in 1..Len(keys) :
         \A k \in 1..Len(keys) :
           /\ cnt[keys[k]] <= cnt[keys[i]]
           /\ k < i => cnt[keys[k]] < cnt[keys[i]]]

\* the units seen with ch, in the order of their first observation with ch
RevUnitsByPair(obs, ch) ==
  LET sel == SelectSeq(obs, LAMBDA o : o.ch = ch)
  IN InsertionOrder([k \in 1..Len(sel) |-> sel[k].u])

\* the keys of rev_counts[ch], in insertion order: the units of counts, in the
\* order of counts, that were seen with ch
RevUnitsOf(obs, ch) ==
  SelectSeq(ObsUnits(obs), LAMBDA u : ObsCount(obs, u, ch) > 0)

\* the two tables chosen from the observations
TablesOf(obs) ==
  [unit_to_char |->
     [u \in {obs[k].u : k \in 1..Len(obs)} |->
        <<MostCommon(ObsCharsOf(obs, u),
                      [c \in {obs[k].ch : k \in 1..Len(obs)} |-> ObsCount(obs, u, c)])>>],
   char_to_unit |->
     [c \in {obs[k].ch : k \in 1..Len(obs)} |->
        MostCommon(RevUnitsOf(obs, c),
                   [u \in {obs[k].u : k \in 1..Len(obs)} |-> ObsCount(obs, u, c)])]]

\* learn_mapping_from_pair aligning whatever block pairs there are
learn_mapping_unchecked(msg_data, txt_text) ==
  LET msg_blocks_units == _read_all_blocks_units(msg_data)
      txt_blocks == split_txt_into_blocks(txt_text)
  IN IF msg_blocks_units.err # "" THEN msg_blocks_units
     ELSE Ok(TablesOf(Observations(msg_blocks_units.val, txt_blocks)))

\* learn_mapping_from_pair on the bytes of the MSG and the text of the TXT
learn_mapping_from_pair(msg_data, txt_text) ==
  LET msg_blocks_units == _read_all_blocks_units(msg_data)
      txt_blocks == split_txt_into_blocks(txt_text)
  IN IF msg_blocks_units.err # "" THEN msg_blocks_units
     ELSE IF Len(msg_blocks_units.val) # Len(txt_blocks)
       THEN Raise("MSG/TXT block counts differ; cannot train mapping.")
     ELSE Ok(TablesOf(Observations(msg_blocks_units.val, txt_blocks)))

(***************************************************************************)
(* duomsgJP (Experimental).pyw: paths, files and the mapping artifact.     *)
(* A path is the sequence of the dot-separated parts of its name; a file   *)
(* system maps paths to files.                                             *)
(***************************************************************************)
MAP_FILE_SUFFIX == <<"map", "json">>
AUTO_TRAIN_JP == TRUE

\* Path.with_suffix: the last part replaced
with_suffix(path, suffix) == SubSeq(path, 1, Len(path) - 1) \o suffix

\* path.suffix.lower(), without the dot
suffix_lower(path) ==
  LET x == path[Len(path)] IN
    IF x \in {"MSG", "msg"} THEN "msg"
    ELSE IF x \in {"TXT", "txt"} THEN "txt"
    ELSE x

map_path_for_folder(file) == <<"A">> \o MAP_FILE_SUFFIX

map_path_for(file) == with_suffix(file, MAP_FILE_SUFFIX)

NoFile == [exists |-> FALSE, content |-> <<>>]
File(c) == [exists |-> TRUE, content |-> c]

path_exists(files, path) == path \in DOMAIN files /\ files[path].exists

\* str(k) of a natural number: its decimal digits
RECURSIVE str(_)
str(k) == IF k < 10 THEN <<48 + k>> ELSE str(k \div 10) \o <<48 + (k % 10)>>

\* int(s) of a string of decimal digits
RECURSIVE int(_)
int(s) ==
  IF Len(s) = 1 THEN s[1] - 48
  ELSE 10 * int(SubSeq(s, 1, Len(s) - 1)) + (s[Len(s)] - 48)

\* the JSON document save_mapping writes
MappingJson(unit_to_char, char_to_unit, source_msg, source_txt) ==
  [unit_to_char |-> [k \in {str(u) : u \in DOMAIN unit_to_char} |-> unit_to_char[int(k)]],
   char_to_unit |-> char_to_unit,
   source |-> [msg |-> source_msg, txt |-> source_txt],
   count |-> Cardinality(DOMAIN unit_to_char)]

\* the file system after path was written with content c
write_file(files, path, c) ==
  [q \in DOMAIN files \cup {path} |-> IF q = path THEN File(c) ELSE files[q]]

\* save_mapping keeping the entries of the artifact already there
save_mapping_keeping(files, file, unit_to_char, char_to_unit, source_msg, source_txt) ==
  LET old == IF path_exists(files, map_path_for(file))
               THEN files[map_path_for(file)].content
               ELSE [valid |-> FALSE, json |-> <<>>]
      new == MappingJson(unit_to_char, char_to_unit, source_msg, source_txt)
  IN write_file(files, map_path_for(file),
                [valid |-> TRUE,
                 json |-> IF old.valid /\ old.json # <<>>
                            THEN [new EXCEPT !.unit_to_char = old.json.unit_to_char @@ @,
                                             !.char_to_unit = old.json.char_to_unit @@ @]
                            ELSE new])

\* the file system after save_mapping
save_mapping(files, file, unit_to_char, char_to_unit, source_msg, source_txt) ==
  write_file(files, map_path_for(file),
             [valid |-> TRUE,
              json |-> MappingJson(unit_to_char, char_to_unit, source_msg, source_txt)])

\* load_mapping_if_any: the parsed JSON, or None
None == [valid |-> FALSE, json |-> <<>>]

load_mapping_if_any(files, file) ==
  LET p == map_path_for(file) IN
    IF path_exists(files, p)
      THEN (IF files[p].content.valid THEN files[p].content ELSE None)
      ELSE None

\* the JSON object {}
EmptyJson == [valid |-> TRUE, json |-> <<>>]

\* `if mapping:` / `if chosen_map:`: neither None nor an empty object
truthy(mapping) == mapping.valid /\ mapping.json # <<>>

\* {int(k): v for k, v in mapping.get("unit_to_char", {}).items()}
UnitToCharOf(mapping) ==
  [u \in {int(k) : k \in DOMAIN mapping.json.unit_to_char} |->
     mapping.json.unit_to_char[str(u)]]

\* str.encode('utf-8') of write_text: a lone surrogate cannot be encoded
utf8_encodable(t) == \A k \in 1..Len(t) : ~(55296 <= t[k] /\ t[k] <= 57343)

\* decode_msg_file_to_txt_path when load_mapping_if_any returns None: the
\* blocks of the English fallback and the text written to the TXT
decode_msg_file_no_mapping(data, tag_newlines) ==
  LET bs == decode_msg_to_blocks_english(data, tag_newlines) IN
    IF bs.err # "" THEN [blocks |-> bs, written |-> bs]
    ELSE LET txt_text == make_txt_from_blocks(bs.val) IN
      [blocks |-> bs,
       written |-> IF utf8_encodable(txt_text) THEN Ok(txt_text)
                   ELSE Raise("UnicodeEncodeError")]

\* auto_train_if_possible training whether or not an artifact exists
auto_train_over_artifact(files, path) ==
  LET ext == suffix_lower(path)
      m == IF ext = "msg" THEN path ELSE with_suffix(path, <<"MSG">>)
      t == IF ext = "msg" THEN with_suffix(path, <<"txt">>) ELSE path
  IN IF ext \notin {"msg", "txt"} \/ ~path_exists(files, m) \/ ~path_exists(files, t)
       THEN [files |-> files, log |-> <<>>, reads |-> {m, t}, writes |-> {}]
     ELSE LET learned == learn_mapping_from_pair(files[m].content, files[t].content) IN
       IF learned.err # ""
         THEN [files |-> files,
               log |-> <<[line |-> "Mapping training failed", err |-> learned.err]>>,
               reads |-> {m, t}, writes |-> {}]
         ELSE [files |-> save_mapping(files, m, learned.val.unit_to_char,
                                      learned.val.char_to_unit, m, t),
               log |-> <<[line |-> "Trained per-file JP mapping", err |-> ""]>>,
               reads |-> {m, t}, writes |-> {map_path_for(m)}]

\* auto_train_if_possible(path, log_fn): the file system, the lines logged
\* and the paths it looked at and wrote
auto_train_if_possible(files, path) ==
  LET ext == suffix_lower(path)
      m == IF ext = "msg" THEN path ELSE with_suffix(path, <<"MSG">>)
      t == IF ext = "msg" THEN with_suffix(path, <<"txt">>) ELSE path
      map_p == map_path_for(m)
  IN IF ~AUTO_TRAIN_JP THEN [files |-> files, log |-> <<>>, reads |-> {}, writes |-> {}]
     ELSE IF ext \notin {"msg", "txt"}
       THEN [files |-> files, log |-> <<>>, reads |-> {}, writes |-> {}]
     ELSE IF ~path_exists(files, m)
       THEN [files |-> files, log |-> <<>>, reads |-> {m}, writes |-> {}]
     ELSE IF ~path_exists(files, t)
       THEN [files |-> files, log |-> <<>>, reads |-> {m, t}, writes |-> {}]
     ELSE IF path_exists(files, map_p)
       THEN [files |-> files, log |-> <<>>, reads |-> {m, t, map_p}, writes |-> {}]
     ELSE LET learned == learn_mapping_from_pair(files[m].content, files[t].content) IN
       IF learned.err # ""
         THEN [files |-> files,
               log |-> <<[line |-> "Mapping training failed", err |-> learned.err]>>,
               reads |-> {m, t, map_p}, writes |-> {}]
         ELSE [files |-> save_mapping(files, m, learned.val.unit_to_char,
                                      learned.val.char_to_unit, m, t),
               log |-> <<[line |-> "Trained per-file JP mapping", err |-> ""]>>,
               reads |-> {m, t, map_p}, writes |-> {map_p}]

\* App._menu_train_mapping with the two files picked
menu_train_mapping(files, msgp, txtp) ==
  LET learned == learn_mapping_from_pair(files[msgp].content, files[txtp].content) IN
    IF learned.err # ""
      THEN [files |-> files,
            log |-> <<[line |-> "Training failed", err |-> learned.err]>>,
            reads |-> IF _read_all_blocks_units(files[msgp].content).err # ""
                        THEN {msgp} ELSE {msgp, txtp},
            writes |-> {}]
      ELSE [files |-> save_mapping(files, msgp, learned.val.unit_to_char,
                                   learned.val.char_to_unit, msgp, txtp),
            log |-> <<[line |-> "Mapping trained and saved", err |-> ""]>>,
            reads |-> {msgp, txtp}, writes |-> {map_path_for(msgp)}]

\* Path.with_name(path.stem + tail): the last suffix replaced by tail
with_name_stem(path, tail) == SubSeq(path, 1, Len(path) - 1) \o tail

\* write_text(text, encoding='utf-8'): the file is opened, which creates or
\* empties it, before the text is encoded
write_text(files, path, t) ==
  IF utf8_encodable(t)
    THEN [files |-> write_file(files, path, t), err |-> ""]
    ELSE [files |-> write_file(files, path, <<>>), err |-> "UnicodeEncodeError"]

\* duomsgJP: decode_msg_file_to_txt_path(msg_path)
JP_decode_msg_file_to_txt_path(files, msg_path) ==
  LET mapping == load_mapping_if_any(files, msg_path)
      data == files[msg_path].content
      bs == IF truthy(mapping)
              THEN decode_msg_to_blocks_with_map(data, UnitToCharOf(mapping), TAG_NEWLINES)
              ELSE decode_msg_to_blocks_english(data, TAG_NEWLINES)
      first == with_suffix(msg_path, <<"txt">>)
      out_path == IF path_exists(files, first)
               THEN with_name_stem(msg_path, <<"decoded", "txt">>) ELSE first
  IN IF bs.err # ""
       THEN [files |-> files, err |-> bs.err, out |-> <<>>,
             reads |-> {map_path_for(msg_path), msg_path}, writes |-> {}]
     ELSE LET w == write_text(files, out_path, make_txt_from_blocks(bs.val)) IN
       [files |-> w.files, err |-> w.err, out |-> IF w.err = "" THEN out_path ELSE <<>>,
        reads |-> {map_path_for(msg_path), msg_path, first}, writes |-> {out_path}]

\* duomsgJP: encode_txt_file_to_msg_path(txt_path)
JP_encode_txt_file_to_msg_path(files, txt_path) ==
  LET bs == split_txt_into_blocks(files[txt_path].content)
      candidate_msg == with_suffix(txt_path, <<"MSG">>)
      chosen_map ==
        IF path_exists(files, map_path_for(txt_path))
          THEN load_mapping_if_any(files, txt_path)
        ELSE IF path_exists(files, candidate_msg)
                  /\ path_exists(files, map_path_for(candidate_msg))
          THEN load_mapping_if_any(files, candidate_msg)
        ELSE None
      probed ==
        {txt_path, map_path_for(txt_path)}
          \cup (IF path_exists(files, map_path_for(txt_path)) THEN {}
                ELSE IF path_exists(files, candidate_msg)
                  THEN {candidate_msg, map_path_for(candidate_msg)}
                ELSE {candidate_msg})
      msg_bytes ==
        IF truthy(chosen_map)
          THEN encode_blocks_with_map(bs, chosen_map.json.char_to_unit,
                                      DEFAULT_ENCODE_NEWLINE)
          ELSE JP_encode_blocks_english(bs)
      first == with_suffix(txt_path, <<"MSG">>)
      out_path == IF path_exists(files, first)
               THEN with_name_stem(txt_path, <<"encoded", "MSG">>) ELSE first
  IN IF msg_bytes.err # ""
       THEN [files |-> files, err |-> msg_bytes.err, out |-> <<>>,
             reads |-> probed, writes |-> {}]
     ELSE [files |-> write_file(files, out_path, msg_bytes.val), err |-> "",
           out |-> out_path, reads |-> probed \cup {first}, writes |-> {out_path}]

\* the record _handle_path leaves: the files, the files as the automatic
\* training left them, the exception caught if any, the lines logged and the
\* paths looked at and written
Handled(t, r, lines) ==
  [files |-> r.files, trained |-> t.files, err |-> r.err,
   log |-> t.log \o lines
             \o (IF r.err = "" THEN <<[line |-> "Wrote", err |-> ""]>>
                 ELSE <<[line |-> "Error", err |-> r.err]>>),
   reads |-> t.reads \cup r.reads, writes |-> t.writes \cup r.writes]

\* the record _handle_path leaves when it skips the path
Skipped(t, line) ==
  [files |-> t.files, trained |-> t.files, err |-> "",
   log |-> t.log \o <<[line |-> line, err |-> ""]>>,
   reads |-> t.reads, writes |-> t.writes]

\* duomsgJP: App._handle_path(path)
JP_handle_path(files, path) ==
  LET none == [files |-> files, log |-> <<>>, reads |-> {path}, writes |-> {}] IN
  IF ~path_exists(files, path) THEN Skipped(none, "Skipping (not found)")
  ELSE
    LET a == auto_train_if_possible(files, path)
        t == [a EXCEPT !.reads = @ \cup {path}]
        ext == suffix_lower(path)
    IN IF ext = "msg"
         THEN Handled(t, JP_decode_msg_file_to_txt_path(t.files, path),
                      <<[line |-> "Decoding MSG -> TXT", err |-> ""]>>)
       ELSE IF ext = "txt"
         THEN Handled(t, JP_encode_txt_file_to_msg_path(t.files, path),
                      <<[line |-> "Encoding TXT -> MSG", err |-> ""]>>)
       ELSE Skipped(t, "Skipping (unsupported)")

\* duomsgEN: decode_msg_file_to_txt_path(msg_path)
EN_decode_msg_file_to_txt_path(files, msg_path) ==
  LET bs == decode_msg_to_blocks(files[msg_path].content, TAG_NEWLINES)
      first == with_suffix(msg_path, <<"txt">>)
      out_path == IF path_exists(files, first)
                    THEN with_name_stem(msg_path, <<"txt">>) ELSE first
  IN IF bs.err # ""
       THEN [files |-> files, err |-> bs.err, out |-> <<>>,
             reads |-> {msg_path}, writes |-> {}]
     ELSE LET w == write_text(files, out_path, make_txt_from_blocks(bs.val)) IN
       [files |-> w.files, err |-> w.err, out |-> IF w.err = "" THEN out_path ELSE <<>>,
        reads |-> {msg_path, first}, writes |-> {out_path}]

\* duomsgEN: encode_txt_file_to_msg_path(txt_path)
EN_encode_txt_file_to_msg_path(files, txt_path) ==
  LET bs == split_txt_into_blocks(files[txt_path].content)
      msg_bytes == encode_blocks_to_msg(bs, DEFAULT_ENCODE_NEWLINE)
      first == with_suffix(txt_path, <<"bin">>)
      out_path == IF path_exists(files, first)
                    THEN with_name_stem(txt_path, <<"bin">>) ELSE first
  IN IF msg_bytes.err # ""
       THEN [files |-> files, err |-> msg_bytes.err, out |-> <<>>,
             reads |-> {txt_path}, writes |-> {}]
     ELSE [files |-> write_file(files, out_path, msg_bytes.val), err |-> "",
           out |-> out_path, reads |-> {txt_path, first}, writes |-> {out_path}]

\* duomsgEN: App._handle_path(path)
EN_handle_path(files, path) ==
  LET t == [files |-> files, log |-> <<>>, reads |-> {path}, writes |-> {}]
      ext == suffix_lower(path)
  IN IF ~path_exists(files, path) THEN Skipped(t, "Skipping (not found)")
     ELSE IF ext = "msg"
       THEN Handled(t, EN_decode_msg_file_to_txt_path(files, path),
                    <<[line |-> "Decoding MSG -> TXT", err |-> ""]>>)
     ELSE IF ext = "txt"
       THEN Handled(t, EN_encode_txt_file_to_msg_path(files, path),
                    <<[line |-> "Encoding TXT -> MSG", err |-> ""]>>)
     ELSE Skipped(t, "Skipping (unsupported extension)")

(***************************************************************************)
(* SpecDoc: duomsgEN.pyw on bounded lists of block texts: join and split,  *)
(* and encode, decode to a TXT document, encode again.                     *)
(***************************************************************************)
DocChars == {97, 35, 10, 32, 13}

\* the lists of at most two blocks cut from a text
BlockLists(t) ==
  {<<>>, <<t>>} \cup {<<SubSeq(t, 1, k), SubSeq(t, k + 1, Len(t))>> : k \in 0..Len(t)}

IdleDoc ==
  /\ blocks = <<>>
  /\ msg = Raise("none")
  /\ txt = <<>>
  /\ parts = <<>>
  /\ msg_rt = Raise("none")

IdleParse ==
  /\ file_bytes = <<>>
  /\ res = Raise("none")

IdleLatin ==
  /\ text = <<>>
  /\ units = <<>>
  /\ text_rt = <<>>
  /\ units_rt = <<>>

IdleTrain ==
  /\ fs = <<>>
  /\ log = <<>>
  /\ jp_blocks = Raise("none")
  /\ jp_msg = Raise("none")

IdleDrop == ops = <<>>

IdleAlign ==
  /\ al_units = <<>>
  /\ al_texts = <<>>
  /\ al_b = 0
  /\ al_ref = <<>>
  /\ al_i = 0
  /\ al_j = 0
  /\ al_counts = <<>>
  /\ al_learned = Raise("none")

IdleCodec ==
  /\ in_blocks = <<>>
  /\ in_units = <<>>
  /\ out_blocks = Raise("none")
  /\ out = Raise("none")

InitDoc ==
  /\ IdleDrop
  /\ IdleAlign
  /\ TAG_NEWLINES \in BOOLEAN
  /\ DEFAULT_ENCODE_NEWLINE = NEWLINE_8016
  /\ ENCODE_UNKNOWN_POLICY = "error"
  /\ pc = "blocks"
  /\ \E t \in SeqsUpTo(DocChars, MaxDocLen) : blocks \in BlockLists(t)
  /\ msg = Raise("none")
  /\ txt = <<>>
  /\ parts = <<>>
  /\ msg_rt = Raise("none")
  /\ IdleLatin
  /\ IdleParse
  /\ IdleTrain
  /\ IdleCodec

\* make_txt_from_blocks on the given blocks
MakeTxt ==
  /\ pc = "blocks"
  /\ txt' = make_txt_from_blocks(blocks)
  /\ pc' = "joined"
  /\ UNCHANGED <<settingVars, blocks, msg, parts, msg_rt, notDoc>>

\* split_txt_into_blocks on the joined document
SplitTxt ==
  /\ pc = "joined"
  /\ parts' = split_txt_into_blocks(txt)
  /\ pc' = "split"
  /\ UNCHANGED <<settingVars, blocks, msg, txt, msg_rt, notDoc>>

\* encode_blocks_to_msg on the given blocks
EncodeBlocks ==
  /\ pc = "blocks"
  /\ msg' = encode_blocks_to_msg(blocks, DEFAULT_ENCODE_NEWLINE)
  /\ pc' = "msg"
  /\ UNCHANGED <<settingVars, blocks, txt, parts, msg_rt, notDoc>>

\* decode_msg_file_to_txt_path: the container to the TXT document text
DecodeMsgToTxt ==
  /\ pc = "msg"
  /\ msg.err = ""
  /\ LET d == decode_msg_to_blocks(msg.val, TAG_NEWLINES) IN
       IF d.err = ""
         THEN txt' = make_txt_from_blocks(d.val) /\ pc' = "txt"
         ELSE txt' = txt /\ pc' = "decode_failed"
  /\ UNCHANGED <<settingVars, blocks, msg, parts, msg_rt, notDoc>>

\* encode_txt_file_to_msg_path: the TXT document text to a container
EncodeTxtToMsg ==
  /\ pc = "txt"
  /\ parts' = split_txt_into_blocks(txt)
  /\ msg_rt' = encode_blocks_to_msg(parts', DEFAULT_ENCODE_NEWLINE)
  /\ pc' = "msg_roundtrip"
  /\ UNCHANGED <<settingVars, blocks, msg, txt, notDoc>>

NextDoc == MakeTxt \/ SplitTxt \/ EncodeBlocks \/ DecodeMsgToTxt \/ EncodeTxtToMsg

SpecDoc == InitDoc /\ [][NextDoc]_vars

(***************************************************************************)
(* Properties of the document form.                                        *)
(***************************************************************************)
\* C3: a container the encoder produced, decoded to a TXT document and
\* encoded again, comes back byte for byte: same block count, same table, same
\* code units.
C3_ContainerRoundTrip ==
  pc = "msg_roundtrip" => msg_rt = msg

HasSentinelLine(b) ==
  \E k \in 1..Len(splitlines(b)) : splitlines(b)[k] = EN_BLOCK_SEPARATOR

HasStrippedSentinelLine(b) ==
  \E k \in 1..Len(splitlines(b)) : strip(splitlines(b)[k]) = EN_BLOCK_SEPARATOR

KeptBlock(b) ==
  /\ b # <<>>
  /\ b[Len(b)] # LF
  /\ \A k \in 1..Len(b) : b[k] \in LineBoundaries => b[k] = LF
  /\ ~HasStrippedSentinelLine(b)

EntryFields == [offset : {0, 1}, length : {0, 1, 2}]
ParseUnitVals == {72, 269}
SampleUnitToChar == (269 :> <<12354>>)

ContainerBytes(declared, count, es, us) ==
  LET body == PackH(count) \o PackEntries(es) \o PackUnits(us)
  IN PackH(IF declared THEN 2 + Len(body) ELSE 0) \o body

InitParse ==
  /\ IdleDrop
  /\ IdleAlign
  /\ TAG_NEWLINES = TRUE
  /\ DEFAULT_ENCODE_NEWLINE = NEWLINE_8016
  /\ ENCODE_UNKNOWN_POLICY = "error"
  /\ pc = "file"
  /\ \E declared \in BOOLEAN, count \in 0..MaxCount, drop \in 0..MaxDrop,
        es \in SeqsUpTo(EntryFields, MaxEntries),
        us \in SeqsUpTo(ParseUnitVals, MaxParseUnits) :
       LET full == ContainerBytes(declared, count, es, us)
       IN file_bytes = SubSeq(full, 1, IF drop > Len(full) THEN 0 ELSE Len(full) - drop)
  /\ res = Raise("none")
  /\ IdleLatin
  /\ IdleDoc
  /\ IdleTrain
  /\ IdleCodec

\* duomsgJP: read_msg_entries_and_textstart(file_bytes)
ReadHeaderJP ==
  /\ pc = "file"
  /\ res' = read_msg_entries_and_textstart(file_bytes)
  /\ pc' = "JP_header"
  /\ UNCHANGED <<settingVars, file_bytes, notParse>>

\* duomsgEN: decode_msg_to_blocks(msg_path)
DecodeBlocksEN ==
  /\ pc = "file"
  /\ res' = decode_msg_to_blocks(file_bytes, TAG_NEWLINES)
  /\ pc' = "EN_blocks"
  /\ UNCHANGED <<settingVars, file_bytes, notParse>>

\* duomsgJP: decode_msg_to_blocks_english(msg_path)
DecodeBlocksEnglishJP ==
  /\ pc = "file"
  /\ res' = decode_msg_to_blocks_english(file_bytes, TAG_NEWLINES)
  /\ pc' = "JP_english_blocks"
  /\ UNCHANGED <<settingVars, file_bytes, notParse>>

\* duomsgJP: decode_msg_to_blocks_with_map(msg_path, unit_to_char)
DecodeBlocksWithMapJP ==
  /\ pc = "file"
  /\ res' = decode_msg_to_blocks_with_map(file_bytes, SampleUnitToChar, TAG_NEWLINES)
  /\ pc' = "JP_mapped_blocks"
  /\ UNCHANGED <<settingVars, file_bytes, notParse>>

\* duomsgJP: _read_all_blocks_units(msg_path), the trainer's block reader
ReadBlocksUnitsJP ==
  /\ pc = "file"
  /\ res' = _read_all_blocks_units(file_bytes)
  /\ pc' = "JP_units"
  /\ UNCHANGED <<settingVars, file_bytes, notParse>>

NextParse ==
  \/ ReadHeaderJP
  \/ DecodeBlocksEN
  \/ DecodeBlocksEnglishJP
  \/ DecodeBlocksWithMapJP
  \/ ReadBlocksUnitsJP

SpecParse == InitParse /\ [][NextParse]_vars

(***************************************************************************)
(* Properties of the container readers.                                    *)
(***************************************************************************)
\* the 16-bit big-endian field at 0-based byte offset pos of d
FieldAt(d, pos) == 256 * d[pos + 1] + d[pos + 2]

\* fewer than 4 bytes for the fixed header, or fewer than 4 bytes left at the
\* position of one of the declared table entries
HeaderTruncated(d) ==
  \/ Len(d) < 4
  \/ \E i \in 0..(FieldAt(d, 2) - 1) : Len(d) - (4 + 4 * i) < 4

HeaderErrors == {"File too small to be a valid MSG", "Truncated block table"}

\* C6: header parsing fails exactly when the fixed header or one of the
\* declared table entries is cut short; otherwise it returns blockCount
\* entries, read from the table in order, and a text area starting at
\* 4 + 4 * blockCount, whatever the declared total size.
C6_HeaderParsing ==
  /\ pc = "JP_header" =>
       /\ (res.err # "") = HeaderTruncated(file_bytes)
       /\ res.err # "" => res.err \in HeaderErrors /\ res.val = <<>>
       /\ res.err = "" =>
            /\ Len(res.val.entries) = FieldAt(file_bytes, 2)
            /\ res.val.text_start = 4 + 4 * FieldAt(file_bytes, 2)
            /\ \A i \in 1..Len(res.val.entries) :
                 /\ res.val.entries[i].offset = FieldAt(file_bytes, 4 * i)
                 /\ res.val.entries[i].length = FieldAt(file_bytes, 4 * i + 2)
  /\ pc = "EN_blocks" =>
       /\ (res.err \in HeaderErrors) = HeaderTruncated(file_bytes)
       /\ res.err # "" => res.val = <<>>
       /\ res.err = "" => Len(res.val) = FieldAt(file_bytes, 2)

\* a table of two entries parsed from a file whose declared size is 0
C6_Witness ==
  /\ pc = "JP_header"
  /\ res.err = ""
  /\ FieldAt(file_bytes, 0) = 0
  /\ FieldAt(file_bytes, 2) = 2
  /\ Len(res.val.entries) = 2
  /\ res.val.entries[2].length = 2

\* the number of whole code units after the table
TextAreaUnits(d) == (Len(d) - (4 + 4 * FieldAt(d, 2))) \div 2

\* a parsed table entry reaching past the end of the text area
EntryOutOfBounds(d) ==
  /\ ~HeaderTruncated(d)
  /\ \E i \in 1..FieldAt(d, 2) :
       FieldAt(d, 4 * i) + FieldAt(d, 4 * i + 2) > TextAreaUnits(d)

\* C5: in every decode path a table entry reaching past the text area makes
\* the operation fail with the invalid-bounds error, and the trainer's reader
\* never returns a block of fewer units than its declared length.
C5_BlockBounds ==
  /\ (/\ pc \in {"EN_blocks", "JP_english_blocks", "JP_mapped_blocks", "JP_units"}
      /\ EntryOutOfBounds(file_bytes))
       => res.err = "Invalid block offset/length"
  /\ (pc = "JP_units" /\ res.err = "") =>
       \A i \in 1..Len(res.val) : Len(res.val[i]) = FieldAt(file_bytes, 4 * i + 2)

(***************************************************************************)
(* SpecTrain: duomsgJP (Experimental).pyw on a folder holding A.MSG, maybe *)
(* A.txt and maybe A.map.json: the two ways of training a mapping, then    *)
(* the mapped decode of A.MSG and the mapped encode of the decoded blocks. *)
(***************************************************************************)
MsgPath == <<"A", "MSG">>
TxtPath == <<"A", "txt">>
MapPath == <<"A", "map", "json">>
TrainPaths == {MsgPath, TxtPath, MapPath}

TrainUnitVals == {269, 272}
TrainNewlineUnits == {<<269, NEWLINE_8016, 272>>, <<NEWLINE_000A, 269>>}
TrainChars == {12354, 12356}

\* the lists of exactly j blocks that s is the concatenation of
RECURSIVE CutsInto(_, _)
CutsInto(s, j) ==
  IF j = 0 THEN (IF s = <<>> THEN {<<>>} ELSE {})
  ELSE UNION {{<<SubSeq(s, 1, k)>> \o rest :
                  rest \in CutsInto(SubSeq(s, k + 1, Len(s)), j - 1)} :
                k \in 0..Len(s)}

\* the lists of at most n blocks that s is the concatenation of
BlockListsUpTo(s, n) == UNION {CutsInto(s, j) : j \in 0..n}

\* a mapping artifact written by an earlier training
SampleTables == TablesOf(<<[u |-> 269, ch |-> 12354]>>)
SampleMapping ==
  [valid |-> TRUE,
   json |-> MappingJson(SampleTables.unit_to_char, SampleTables.char_to_unit,
                        MsgPath, TxtPath)]

InitTrain ==
  /\ IdleDrop
  /\ IdleAlign
  /\ TAG_NEWLINES = TRUE
  /\ DEFAULT_ENCODE_NEWLINE = NEWLINE_8016
  /\ ENCODE_UNKNOWN_POLICY = "error"
  /\ pc = "files"
  /\ \E us \in SeqsUpTo(TrainUnitVals, MaxTrainUnits) \cup TrainNewlineUnits,
        ref \in SeqsUpTo(TrainChars, MaxRefLen),
        m \in {NoFile, File(None), File(SampleMapping)} :
     \E ub \in BlockListsUpTo(us, MaxMsgBlocks),
        t \in {NoFile} \cup
              {File(make_txt_from_blocks(tb)) : tb \in BlockListsUpTo(ref, MaxRefBlocks)} :
       fs = [p \in TrainPaths |->
               IF p = MsgPath THEN File(SerializeMsg(ub).val)
               ELSE IF p = TxtPath THEN t ELSE m]
  /\ log = <<>>
  /\ jp_blocks = Raise("none")
  /\ jp_msg = Raise("none")
  /\ IdleLatin
  /\ IdleDoc
  /\ IdleParse
  /\ IdleCodec

\* auto_train_if_possible(path, log_fn) for a dropped file that exists
AutoTrainIfPossible(path) ==
  /\ pc = "files"
  /\ path_exists(fs, path)
  /\ LET r == auto_train_if_possible(fs, path) IN
       /\ fs' = r.files
       /\ log' = r.log
  /\ pc' = "auto_trained"
  /\ UNCHANGED <<settingVars, jp_blocks, jp_msg, notTrain>>

\* App._menu_train_mapping with A.MSG and A.txt picked in the two dialogs
MenuTrainMapping ==
  /\ pc = "files"
  /\ path_exists(fs, MsgPath) /\ path_exists(fs, TxtPath)
  /\ LET r == menu_train_mapping(fs, MsgPath, TxtPath) IN
       /\ fs' = r.files
       /\ log' = r.log
  /\ pc' = "menu_trained"
  /\ UNCHANGED <<settingVars, jp_blocks, jp_msg, notTrain>>

\* decode_msg_file_to_txt_path(A.MSG) up to the blocks, a mapping being loaded
DecodeWithMap ==
  /\ pc \in {"files", "auto_trained", "menu_trained"}
  /\ load_mapping_if_any(fs, MsgPath).valid
  /\ jp_blocks' = decode_msg_to_blocks_with_map(
                    fs[MsgPath].content,
                    UnitToCharOf(load_mapping_if_any(fs, MsgPath)), TAG_NEWLINES)
  /\ pc' = "mapped_decoded"
  /\ UNCHANGED <<settingVars, fs, log, jp_msg, notTrain>>

\* encode_blocks_with_map on the decoded blocks with the same mapping
EncodeWithMap ==
  /\ pc = "mapped_decoded"
  /\ jp_blocks.err = ""
  /\ jp_msg' = encode_blocks_with_map(
                 jp_blocks.val,
                 load_mapping_if_any(fs, MsgPath).json.char_to_unit,
                 DEFAULT_ENCODE_NEWLINE)
  /\ pc' = "mapped_encoded"
  /\ UNCHANGED <<settingVars, fs, log, jp_blocks, notTrain>>

NextTrain ==
  \/ \E path \in {MsgPath, TxtPath} : AutoTrainIfPossible(path)
  \/ MenuTrainMapping
  \/ DecodeWithMap
  \/ EncodeWithMap

SpecTrain == InitTrain /\ [][NextTrain]_vars

(***************************************************************************)
(* Properties of the training and of the mapped round trip.                *)
(***************************************************************************)
\* the number of blocks of the training container differs from the number of
\* blocks split from the reference document
BlockCountsDiffer(files) ==
  /\ path_exists(files, MsgPath) /\ path_exists(files, TxtPath)
  /\ FieldAt(files[MsgPath].content, 2)
       # Len(split_txt_into_blocks(files[TxtPath].content))

CountMismatch == "MSG/TXT block counts differ; cannot train mapping."

\* C8: when the block counts differ, a training that is attempted (the explicit
\* one always, the automatic one when there is no artifact yet) fails with the
\* block count error and leaves every file, the artifact included, as it was.
C8_TrainingPrecondition ==
  [][(/\ pc = "files"
      /\ BlockCountsDiffer(fs)
      /\ \/ pc' = "menu_trained"
         \/ pc' = "auto_trained" /\ ~path_exists(fs, MapPath))
       => /\ fs' = fs
          /\ Len(log') = 1
          /\ log'[1].err = CountMismatch]_vars

\* an automatic training of three blocks against two that failed and wrote
\* no artifact
C8_Witness ==
  /\ pc = "auto_trained"
  /\ FieldAt(fs[MsgPath].content, 2) = 3
  /\ path_exists(fs, TxtPath)
  /\ Len(split_txt_into_blocks(fs[TxtPath].content)) = 2
  /\ ~path_exists(fs, MapPath)
  /\ log = <<[line |-> "Mapping training failed", err |-> CountMismatch]>>

\* the mapping in use was written by a training of this run
TrainedNow == log # <<>> /\ log[1].err = ""

\* C10: decoding A.MSG through a trained mapping and encoding the decoded
\* blocks through the same mapping gives back the code units of every block.
C10_MappedRoundTrip ==
  (pc = "mapped_encoded" /\ TrainedNow) =>
    /\ jp_msg.err = ""
    /\ _read_all_blocks_units(jp_msg.val) = _read_all_blocks_units(fs[MsgPath].content)

(***************************************************************************)
(* SpecDrop: both tools on one folder.  Files are dropped on the window of *)
(* either tool, one after the other, and a mapping is trained from the     *)
(* menu; every operation is a whole handler.                               *)
(***************************************************************************)
OtherMsgPath == <<"B", "MSG">>
DecodedMsgPath == <<"A", "decoded", "MSG">>
DropPaths == {MsgPath, TxtPath, MapPath, OtherMsgPath, DecodedMsgPath}

\* The folder holds any of: A.MSG with one block, two blocks, a unit that is
\* half of a surrogate pair, or too short to hold a header; A.txt with one or
\* two blocks of kana or one block of ASCII; A.map.json unreadable, empty or
\* left by an earlier training; B.MSG; A.decoded.MSG.
InitDrop ==
  /\ TAG_NEWLINES = TRUE
  /\ DEFAULT_ENCODE_NEWLINE = NEWLINE_8016
  /\ ENCODE_UNKNOWN_POLICY = "error"
  /\ pc = "folder"
  /\ \E m \in {NoFile, File(<<0, 0>>)}
                \cup {File(SerializeMsg(ub).val) :
                        ub \in {<<<<269>>>>, <<<<269>>, <<272>>>>, <<<<55296>>>>}},
        t \in {NoFile}
                \cup {File(make_txt_from_blocks(tb)) :
                        tb \in {<<<<12354>>>>, <<<<12354>>, <<12356>>>>, <<<<72>>>>}},
        j \in {NoFile, File(None), File(EmptyJson), File(SampleMapping)},
        b \in {NoFile} \cup {File(SerializeMsg(ub).val) : ub \in {<<<<269>>>>, <<<<272>>>>}},
        d \in {NoFile, File(SerializeMsg(<<<<269>>>>).val)} :
       fs = [p \in DropPaths |->
               IF p = MsgPath THEN m
               ELSE IF p = TxtPath THEN t
               ELSE IF p = MapPath THEN j
               ELSE IF p = OtherMsgPath THEN b ELSE d]
  /\ log = <<>>
  /\ ops = <<>>
  /\ IdleAlign
  /\ jp_blocks = Raise("none")
  /\ jp_msg = Raise("none")
  /\ IdleLatin
  /\ IdleDoc
  /\ IdleParse
  /\ IdleCodec

\* duomsgJP: a file dropped on the window, App._handle_path(path)
DropJP(path) ==
  /\ Len(ops) < MaxOps
  /\ \E r \in {JP_handle_path(fs, path)} :
       /\ fs' = r.files
       /\ log' = r.log
       /\ ops' = Append(ops, [tool |-> "JP", kind |-> "drop", inputs |-> {path},
                              before |-> fs, trained |-> r.trained,
                              err |-> r.err, log |-> r.log,
                              reads |-> r.reads, writes |-> r.writes])
  /\ UNCHANGED <<pc, settingVars, notDrop>>

\* duomsgEN: a file dropped on the window, App._handle_path(path)
DropEN(path) ==
  /\ Len(ops) < MaxOps
  /\ \E r \in {EN_handle_path(fs, path)} :
       /\ fs' = r.files
       /\ log' = r.log
       /\ ops' = Append(ops, [tool |-> "EN", kind |-> "drop", inputs |-> {path},
                              before |-> fs, trained |-> r.trained,
                              err |-> r.err, log |-> r.log,
                              reads |-> r.reads, writes |-> r.writes])
  /\ UNCHANGED <<pc, settingVars, notDrop>>

\* duomsgJP: App._menu_train_mapping with msgp and txtp picked in the dialogs
MenuTrain(msgp, txtp) ==
  /\ Len(ops) < MaxOps
  /\ path_exists(fs, msgp) /\ path_exists(fs, txtp)
  /\ \E r \in {menu_train_mapping(fs, msgp, txtp)} :
       /\ fs' = r.files
       /\ log' = r.log
       /\ ops' = Append(ops, [tool |-> "JP", kind |-> "train", inputs |-> {msgp, txtp},
                              before |-> fs, trained |-> fs,
                              err |-> r.log[1].err, log |-> r.log,
                              reads |-> r.reads, writes |-> r.writes])
  /\ UNCHANGED <<pc, settingVars, notDrop>>

NextDrop ==
  \/ \E path \in DropPaths : DropJP(path)
  \/ \E path \in {MsgPath, TxtPath, OtherMsgPath} : DropEN(path)
  \/ \E msgp \in {MsgPath, OtherMsgPath} : MenuTrain(msgp, TxtPath)

SpecDrop == InitDrop /\ [][NextDrop]_vars

(***************************************************************************)
(* Properties of the operations on a folder.                               *)
(***************************************************************************)
\* the file at a path of a file system, NoFile where there is none
FileAt(files, p) == IF p \in DOMAIN files THEN files[p] ELSE NoFile

\* the paths whose file differs between two file systems
Changed(a, b) == {p \in DOMAIN a \cup DOMAIN b : FileAt(a, p) # FileAt(b, p)}

\* the file system the k-th operation left
AfterOp(k) == IF k = Len(ops) THEN fs ELSE ops[k + 1].before

\* C11: no partial writes.  A decode, encode or train that fails leaves the
\* file system exactly as it was before it started (after the automatic
\* training of the same drop, an operation of its own), and one that
\* completes leaves no more than its one output artifact changed.
C11_NoPartialWrites ==
  \A k \in 1..Len(ops) :
    /\ ops[k].err # "" => AfterOp(k) = ops[k].trained
    /\ ops[k].err = "" => Cardinality(Changed(ops[k].trained, AfterOp(k))) <= 1

(***************************************************************************)
(* SpecAlign: the alignment loop of learn_mapping_from_pair, one iteration *)
(* of the unit loop at a time, on block pairs of equal number, and the     *)
(* tables built from the counts when the loops are over.                   *)
(***************************************************************************)
InitAlign ==
  /\ TAG_NEWLINES = TRUE
  /\ DEFAULT_ENCODE_NEWLINE = NEWLINE_8016
  /\ ENCODE_UNKNOWN_POLICY = "error"
  /\ pc = "zip"
  /\ \E ub \in SeqsUpTo({269, 272, NEWLINE_8016}, MaxAlignLen),
        tb \in SeqsUpTo({12354, 12356, LF}, MaxAlignLen),
        more \in {<<>>,
                  <<<<272>>, <<12354>>>>,
                  <<<<269>>, <<12356>>>>,
                  <<<<NEWLINE_000A, 269>>, JP_NL_TAG_000A \o <<LF, 12354>>>>} :
       /\ al_units = <<ub>> \o (IF more = <<>> THEN <<>> ELSE <<more[1]>>)
       /\ al_texts = <<tb>> \o (IF more = <<>> THEN <<>> ELSE <<more[2]>>)
  /\ al_b = 0
  /\ al_ref = <<>>
  /\ al_i = 0
  /\ al_j = 0
  /\ al_counts = <<>>
  /\ al_learned = Raise("none")
  /\ IdleLatin
  /\ IdleDoc
  /\ IdleParse
  /\ IdleTrain
  /\ IdleCodec
  /\ IdleDrop

\* for ub, tb in zip(...): ref = _strip_nl_tags_keep_newline(tb); j = 0
BeginBlock ==
  /\ pc = "zip"
  /\ al_b < Len(al_units)
  /\ al_b' = al_b + 1
  /\ al_ref' = _strip_nl_tags_keep_newline(al_texts[al_b + 1])
  /\ al_i' = 0
  /\ al_j' = 0
  /\ pc' = "units"
  /\ UNCHANGED <<al_units, al_texts, al_counts, al_learned, notAlign>>

\* for u in ub, u a newline code: step over a line break at the cursor
NewlineUnit ==
  /\ pc = "units"
  /\ al_i < Len(al_units[al_b])
  /\ al_units[al_b][al_i + 1] \in {NEWLINE_000A, NEWLINE_8016}
  /\ al_j' = IF al_j < Len(al_ref) /\ al_ref[al_j + 1] = LF THEN al_j + 1 ELSE al_j
  /\ al_i' = al_i + 1
  /\ UNCHANGED <<pc, al_units, al_texts, al_b, al_ref, al_counts, al_learned, notAlign>>

\* for u in ub, any other u with a character left after the line breaks:
\* counts[u][ch] += 1; j += 1
OtherUnit ==
  /\ pc = "units"
  /\ al_i < Len(al_units[al_b])
  /\ al_units[al_b][al_i + 1] \notin {NEWLINE_000A, NEWLINE_8016}
  /\ LET j1 == SkipNewlines(al_ref, al_j) IN
       /\ j1 < Len(al_ref)
       /\ al_counts' = Append(al_counts, [u |-> al_units[al_b][al_i + 1],
                                          ch |-> al_ref[j1 + 1]])
       /\ al_j' = j1 + 1
  /\ al_i' = al_i + 1
  /\ UNCHANGED <<pc, al_units, al_texts, al_b, al_ref, al_learned, notAlign>>

\* for u in ub, any other u with no character left after the line breaks:
\* break
OutOfReference ==
  /\ pc = "units"
  /\ al_i < Len(al_units[al_b])
  /\ al_units[al_b][al_i + 1] \notin {NEWLINE_000A, NEWLINE_8016}
  /\ SkipNewlines(al_ref, al_j) >= Len(al_ref)
  /\ al_j' = SkipNewlines(al_ref, al_j)
  /\ pc' = "zip"
  /\ UNCHANGED <<al_units, al_texts, al_b, al_ref, al_i, al_counts, al_learned, notAlign>>

\* the units of the block are exhausted
EndBlock ==
  /\ pc = "units"
  /\ al_i = Len(al_units[al_b])
  /\ pc' = "zip"
  /\ UNCHANGED <<alignVars, notAlign>>

\* the tables chosen from the counts, and the return
ReturnTables ==
  /\ pc = "zip"
  /\ al_b = Len(al_units)
  /\ al_learned' = Ok(TablesOf(al_counts))
  /\ pc' = "returned"
  /\ UNCHANGED <<al_units, al_texts, al_b, al_ref, al_i, al_j, al_counts, notAlign>>

NextAlign ==
  \/ BeginBlock
  \/ NewlineUnit
  \/ OtherUnit
  \/ OutOfReference
  \/ EndBlock
  \/ ReturnTables

SpecAlign == InitAlign /\ [][NextAlign]_vars

\* the loop counts what the trainer's walk over whole blocks counts
AlignmentAgrees ==
  pc = "returned" => al_counts = Observations(al_units, al_texts)

(***************************************************************************)
(* SpecCodec: the encoders of both tools on bounded lists of block texts,  *)
(* and the decode of duomsgJP without a mapping on well-formed containers  *)
(* of bounded lists of blocks of code units.                               *)
(***************************************************************************)
CodecChars == {10, 110, 47, 72, 12354, 128512}
CodecTaggedTexts ==
  {JP_NL_TAG_8016 \o <<LF>>, <<110>> \o JP_NL_TAG_000A \o <<LF, 72>>, JP_NL_TAG_8016}
CodecUnits == {NEWLINE_000A, NEWLINE_8016, 72, 225, 269, 1, 128, 55296, 65535}
SampleCharToUnit == (12354 :> 269)
UnknownPolicies == {"error", "placeholder", "skip", "raw"}

InitCodec ==
  /\ IdleDrop
  /\ IdleAlign
  /\ TAG_NEWLINES \in BOOLEAN
  /\ DEFAULT_ENCODE_NEWLINE = NEWLINE_8016
  /\ ENCODE_UNKNOWN_POLICY \in UnknownPolicies
  /\ \/ /\ pc = "blocks"
        /\ \E t \in SeqsUpTo(CodecChars, MaxCodecText) \cup CodecTaggedTexts :
             in_blocks \in BlockListsUpTo(t, MaxCodecBlocks)
        /\ in_units = <<>>
     \/ /\ pc = "container"
        /\ ENCODE_UNKNOWN_POLICY = "error"
        /\ \E us \in SeqsUpTo(CodecUnits, MaxCodecUnits) :
             in_units \in BlockListsUpTo(us, MaxCodecBlocks)
        /\ in_blocks = <<>>
  /\ out_blocks = Raise("none")
  /\ out = Raise("none")
  /\ IdleLatin
  /\ IdleDoc
  /\ IdleParse
  /\ IdleTrain

\* duomsgEN: encode_blocks_to_msg(blocks)
EncodeBlocksEN ==
  /\ pc = "blocks"
  /\ out' = encode_blocks_to_msg(in_blocks, DEFAULT_ENCODE_NEWLINE)
  /\ pc' = "EN_encoded"
  /\ UNCHANGED <<settingVars, in_blocks, in_units, out_blocks, notCodec>>

\* duomsgJP: encode_blocks_with_map(blocks, char_to_unit)
EncodeBlocksWithMapJP ==
  /\ pc = "blocks"
  /\ out' = encode_blocks_with_map(in_blocks, SampleCharToUnit, DEFAULT_ENCODE_NEWLINE)
  /\ pc' = "JP_mapped_encoded"
  /\ UNCHANGED <<settingVars, in_blocks, in_units, out_blocks, notCodec>>

\* duomsgJP: the English-only branch of encode_txt_file_to_msg_path
EncodeBlocksEnglishJP ==
  /\ pc = "blocks"
  /\ out' = JP_encode_blocks_english(in_blocks)
  /\ pc' = "JP_english_encoded"
  /\ UNCHANGED <<settingVars, in_blocks, in_units, out_blocks, notCodec>>

\* duomsgJP: decode_msg_file_to_txt_path(msg_path), no mapping being there
DecodeFileNoMappingJP ==
  /\ pc = "container"
  /\ LET r == decode_msg_file_no_mapping(SerializeMsg(in_units).val, TAG_NEWLINES) IN
       /\ out_blocks' = r.blocks
       /\ out' = r.written
  /\ pc' = "JP_decoded_no_mapping"
  /\ UNCHANGED <<settingVars, in_blocks, in_units, notCodec>>

\* duomsgJP: decode_msg_to_blocks_with_map(msg_path, unit_to_char) with the
\* table of a mapping that knows one unit
DecodeBlocksWithMappingJP ==
  /\ pc = "container"
  /\ out_blocks' = decode_msg_to_blocks_with_map(SerializeMsg(in_units).val,
                                                 SampleUnitToChar, TAG_NEWLINES)
  /\ pc' = "JP_mapped_decoded"
  /\ UNCHANGED <<settingVars, in_blocks, in_units, out, notCodec>>

NextCodec ==
  \/ EncodeBlocksEN
  \/ EncodeBlocksWithMapJP
  \/ EncodeBlocksEnglishJP
  \/ DecodeFileNoMappingJP
  \/ DecodeBlocksWithMappingJP

SpecCodec == InitCodec /\ [][NextCodec]_vars

(***************************************************************************)
(* Properties of the encoders and of the decode without a mapping.         *)
(***************************************************************************)
\* the sum of the length fields of the table of container d
RECURSIVE SumLengthFields(_, _)
SumLengthFields(d, n) ==
  IF n = 0 THEN 0 ELSE FieldAt(d, 4 * n + 2) + SumLengthFields(d, n - 1)

\* C4: every container an encoder returns declares the number of the input
\* blocks as its block count and 4 + 4 * blockCount + 2 * (the sum of the
\* block lengths) as its total size, which is the number of its bytes.
C4_HeaderIntegrity ==
  (pc \in {"EN_encoded", "JP_mapped_encoded", "JP_english_encoded"} /\ out.err = "") =>
    /\ FieldAt(out.val, 2) = Len(in_blocks)
    /\ FieldAt(out.val, 0)
         = 4 + 4 * FieldAt(out.val, 2) + 2 * SumLengthFields(out.val, FieldAt(out.val, 2))
    /\ FieldAt(out.val, 0) = Len(out.val)

\* a container of a block of two units and a block of one unit returned by
\* the mapped encoder
C4_Witness ==
  /\ pc = "JP_mapped_encoded"
  /\ out.err = ""
  /\ Len(in_blocks) = 2
  /\ FieldAt(out.val, 6) = 2
  /\ FieldAt(out.val, 10) = 1
  /\ FieldAt(out.val, 0) = 18

\* the unit is rendered by the Latin rule as a printable character
LatinCovered(u) ==
  \/ u >= 128 /\ _is_ascii_printable(u - 128)
  \/ _is_ascii_printable(u)

\* what the decode without a mapping is to emit for a unit
FallbackRendering(u, tag_newlines) ==
  IF u \in {NEWLINE_000A, NEWLINE_8016} \/ LatinCovered(u)
    THEN JP_decode_unit_english(u, tag_newlines)
    ELSE Placeholder(u)

\* C9: without a mapping the decode of a well-formed container does not fail,
\* and every unit that is neither a newline code nor rendered by the Latin
\* rule comes out as the placeholder <U+XXXX> of its value.
C9_DegradedFallback ==
  pc = "JP_decoded_no_mapping" =>
    /\ out_blocks.err = ""
    /\ out.err = ""
    /\ Len(out_blocks.val) = Len(in_units)
    /\ \A i \in 1..Len(in_units) :
         out_blocks.val[i]
           = Concat([k \in 1..Len(in_units[i]) |->
                       FallbackRendering(in_units[i][k], TAG_NEWLINES)])

\* the text claimed for a unit that is not a newline code, decoded with a
\* mapping: the mapped glyph, else the character of the Latin rule when it
\* is printable, else the placeholder
MappedFallbackRendering(u, unit_to_char) ==
  IF u \in DOMAIN unit_to_char THEN unit_to_char[u]
  ELSE LET c == IF u >= 128 THEN u - 128 ELSE u IN
    IF _is_ascii_printable(c) THEN <<c>> ELSE Placeholder(u)

\* C15: mapped decode fallback order.  Every unit of a container decoded
\* with a mapping that is not a newline code is rendered as the mapped
\* glyph, else as the Latin character of the unit when that is printable,
\* else as the placeholder; an unmapped printable unit below 0x80 is
\* rendered as its ASCII character.
C15_MappedDecodeFallback ==
  pc = "JP_mapped_decoded" /\ out_blocks.err = ""
    => \A i \in 1..Len(in_units) :
         (\A k \in 1..Len(in_units[i]) :
            in_units[i][k] \notin {NEWLINE_000A, NEWLINE_8016})
         => out_blocks.val[i] =
              Concat([k \in 1..Len(in_units[i]) |->
                        MappedFallbackRendering(in_units[i][k], SampleUnitToChar)])

\* the unit claimed for a character that is not part of a newline marker,
\* encoded with a mapping: the mapped unit, else the unit of the Latin rule
MappedLatinUnit(c, char_to_unit) ==
  IF c \in DOMAIN char_to_unit THEN char_to_unit[c]
  ELSE IF c >= 97 /\ c <= 122 THEN c + 128 ELSE c

\* a printable ASCII character other than the '<' that opens a newline tag
PlainAscii(c) == c >= 32 /\ c <= 126 /\ c # 60

\* C16: mapped encode fallback order.  Blocks made of mapped characters and
\* of plain ASCII characters are encoded under every unknown policy, the
\* default error policy included, without failing: each character as its
\* mapped unit, else lowercase plus 0x80, else its raw codepoint.
C16_MappedEncodeFallback ==
  pc = "JP_mapped_encoded"
    /\ (\A i \in 1..Len(in_blocks) : \A k \in 1..Len(in_blocks[i]) :
          in_blocks[i][k] \in DOMAIN SampleCharToUnit \/ PlainAscii(in_blocks[i][k]))
    => /\ out.err = ""
       /\ _read_all_blocks_units(out.val).val =
            [i \in 1..Len(in_blocks) |->
               [k \in 1..Len(in_blocks[i]) |->
                  MappedLatinUnit(in_blocks[i][k], SampleCharToUnit)]]

(***************************************************************************)
(* SpecLatin: the Latin codec of duomsgEN.pyw applied to bounded inputs,   *)
(* text first (encode, then decode) or units first (decode, then encode).  *)
(***************************************************************************)
LatinChars == {47, 110, 10, 72, 233}
LatinUnits == {72, 238, 47, NEWLINE_000A, NEWLINE_8016, 361}
HelloUnits == <<72, 101, 236, 236, 239, 32790>>
HelloText == <<72, 101, 108, 108, 111>>

InitLatin ==
  /\ IdleDrop
  /\ IdleAlign
  /\ TAG_NEWLINES \in BOOLEAN
  /\ DEFAULT_ENCODE_NEWLINE \in {NEWLINE_8016, NEWLINE_000A}
  /\ ENCODE_UNKNOWN_POLICY = "error"
  /\ \/ /\ pc = "text"
        /\ text \in SeqsUpTo(LatinChars, MaxTextLen)
        /\ units = <<>>
     \/ /\ pc = "units"
        /\ units \in SeqsUpTo(LatinUnits, MaxUnitsLen) \cup {HelloUnits}
        /\ text = <<>>
  /\ text_rt = <<>>
  /\ units_rt = <<>>
  /\ IdleDoc
  /\ IdleParse
  /\ IdleTrain
  /\ IdleCodec

EncodeText ==
  /\ pc = "text"
  /\ units' = _encode_text_to_units(text, DEFAULT_ENCODE_NEWLINE)
  /\ pc' = "encoded"
  /\ UNCHANGED <<settingVars, text, text_rt, units_rt, notLatin>>

DecodeEncoded ==
  /\ pc = "encoded"
  /\ text_rt' = _decode_units_to_text(units, TAG_NEWLINES)
  /\ pc' = "text_roundtrip"
  /\ UNCHANGED <<settingVars, text, units, units_rt, notLatin>>

DecodeUnits ==
  /\ pc = "units"
  /\ text' = _decode_units_to_text(units, TAG_NEWLINES)
  /\ pc' = "decoded"
  /\ UNCHANGED <<settingVars, units, text_rt, units_rt, notLatin>>

EncodeDecoded ==
  /\ pc = "decoded"
  /\ units_rt' = _encode_text_to_units(text, DEFAULT_ENCODE_NEWLINE)
  /\ pc' = "units_roundtrip"
  /\ UNCHANGED <<settingVars, text, units, text_rt, notLatin>>

NextLatin == EncodeText \/ DecodeEncoded \/ DecodeUnits \/ EncodeDecoded

SpecLatin == InitLatin /\ [][NextLatin]_vars

(***************************************************************************)
(* Properties of the Latin codec.                                          *)
(***************************************************************************)
\* the Latin rule's character set: the ASCII range
IsLatinText(t) == \A k \in 1..Len(t) : t[k] < 128

endswith(s, suffix) ==
  /\ Len(suffix) <= Len(s)
  /\ \A k \in 1..Len(suffix) : s[Len(s) - Len(suffix) + k] = suffix[k]

\* every line break of t has one of the two newline tags immediately before it
AllNewlinesTagged(t) ==
  \A k \in 1..Len(t) :
    t[k] = LF => \/ endswith(SubSeq(t, 1, k - 1), EN_NL_TAG_8016)
                 \/ endswith(SubSeq(t, 1, k - 1), EN_NL_TAG_000A)

\* C1 as stated: every Latin text, whatever mix of bare and tagged line breaks
\* it holds, is returned unchanged by encode followed by decode under one tag
\* setting.
C1_RoundTripAnyNewlines ==
  (pc = "text_roundtrip" /\ IsLatinText(text)) => text_rt = text

\* C1 amended: a Latin text is returned unchanged by encode followed by decode
\* under one tag setting when tagging is disabled, and when tagging is enabled
\* provided every line break of the text has a newline tag immediately before it.
C1_RoundTripTagged ==
  (/\ pc = "text_roundtrip"
   /\ IsLatinText(text)
   /\ (TAG_NEWLINES => AllNewlinesTagged(text)))
    => text_rt = text

C1_Witness ==
  /\ pc = "text_roundtrip"
  /\ TAG_NEWLINES
  /\ text = EN_NL_TAG_000A \o <<LF>>
  /\ units = <<NEWLINE_000A>>
  /\ text_rt = text

\* the newline marker the decoder writes for code 0x8016
Marker8016 == (IF TAG_NEWLINES THEN EN_NL_TAG_8016 ELSE <<>>) \o <<LF>>

\* C2 as stated: the units 48 65 EC EC EF 8016 decode to "Hello" followed by
\* the 0x8016 newline marker, and encoding that text with default newline code
\* 0x8016 gives the same six units back.
C2_HelloScenario ==
  /\ (pc \in {"decoded", "units_roundtrip"} /\ units = HelloUnits)
       => text = HelloText \o Marker8016
  /\ (/\ pc = "units_roundtrip"
      /\ units = HelloUnits
      /\ DEFAULT_ENCODE_NEWLINE = NEWLINE_8016)
       => units_rt = HelloUnits

\* the units the encoder gives for "Hello" and a 0x8016 line break: the raw
\* 0x65 of the input comes back as 0xE5
HelloReencoded == <<72, 229, 236, 236, 239, 32790>>

\* C2 amended: the units 48 65 EC EC EF 8016 decode to "Hello" followed by the
\* 0x8016 newline marker, and encoding that text with default newline code
\* 0x8016 gives 48 E5 EC EC EF 8016: the original units but for the second,
\* whose lowercase letter is stored as 0x65 + 0x80.
C2_HelloReencodedShifted ==
  /\ (pc \in {"decoded", "units_roundtrip"} /\ units = HelloUnits)
       => text = HelloText \o Marker8016
  /\ (/\ pc = "units_roundtrip"
      /\ units = HelloUnits
      /\ DEFAULT_ENCODE_NEWLINE = NEWLINE_8016)
       => units_rt = HelloReencoded

C2_Witness ==
  /\ pc = "units_roundtrip"
  /\ units = HelloUnits
  /\ DEFAULT_ENCODE_NEWLINE = NEWLINE_8016
  /\ text = HelloText \o Marker8016
  /\ units_rt = HelloReencoded

\* the container picked in the k-th operation, a training from the menu
PickedMsg(k) == CHOOSE p \in ops[k].inputs : suffix_lower(p) = "msg"

\* the contents of the pair the k-th operation trained from
PickedPair(k) ==
  [p \in {"msg", "txt"} |->
     ops[k].before[CHOOSE q \in ops[k].inputs : suffix_lower(q) = p].content]

\* the two tables of the artifact the k-th operation saved
SavedTables(k) ==
  LET j == AfterOp(k)[map_path_for(PickedMsg(k))].content.json IN
    [unit_to_char |-> j.unit_to_char, char_to_unit |-> j.char_to_unit]

\* the k-th operation is a training from the menu that saved its artifact
Trained(k) == ops[k].kind = "train" /\ ops[k].err = ""

IsMapPath(p) == Len(p) > 2 /\ SubSeq(p, Len(p) - 1, Len(p)) = MAP_FILE_SUFFIX

\* C13: mapping lifecycle.  Once a mapping artifact exists, a file dropped
\* on the window of either tool leaves it as it is, present and with the
\* same content, whether the drop decodes, encodes, fails or is skipped.
C13_MappingLifecycle ==
  [][\A p \in DOMAIN fs :
       IsMapPath(p) /\ fs[p].exists
         /\ Len(ops') > Len(ops) /\ ops'[Len(ops')].kind = "drop"
       => FileAt(fs', p) = fs[p]]_vars

\* C13: A.MSG or A.txt was dropped with both files of the pair present and
\* an unreadable artifact in place, was transcoded, and the artifact is as
\* it was
C13_Witness ==
  /\ Len(ops) > 0
  /\ LET op == ops[Len(ops)] IN
       /\ op.kind = "drop" /\ op.tool = "JP" /\ op.err = ""
       /\ op.inputs \subseteq {MsgPath, TxtPath}
       /\ path_exists(op.before, MsgPath) /\ path_exists(op.before, TxtPath)
       /\ op.before[MapPath] = File(None)
       /\ fs[MapPath] = File(None)
       /\ Changed(op.before, fs) # {}

\* what the k-th operation does when it runs on the file system files
Alone(k, files) ==
  IF ops[k].kind = "train"
    THEN menu_train_mapping(files, PickedMsg(k),
                            CHOOSE q \in ops[k].inputs : suffix_lower(q) = "txt")
  ELSE IF ops[k].tool = "JP"
    THEN JP_handle_path(files, CHOOSE p \in ops[k].inputs : TRUE)
    ELSE EN_handle_path(files, CHOOSE p \in ops[k].inputs : TRUE)

\* no file one of the two operations wrote was looked at or written by the other
NoSharedFile ==
  /\ ops[1].writes \cap (ops[2].reads \cup ops[2].writes) = {}
  /\ ops[2].writes \cap (ops[1].reads \cup ops[1].writes) = {}

\* the second operation logged and wrote what it does when run alone on the
\* folder as it was before the first
SameAsAlone ==
  /\ \A p \in ops[2].inputs : ops[2].kind = "train" => path_exists(ops[1].before, p)
  /\ LET r == Alone(2, ops[1].before) IN
       /\ r.log = ops[2].log
       /\ r.reads = ops[2].reads
       /\ r.writes = ops[2].writes
       /\ \A p \in r.writes : FileAt(r.files, p) = FileAt(fs, p)

\* C14 as claimed: two operations on distinct input paths share no file and
\* each does what it does alone.
C14_IndependenceDistinctPaths ==
  Len(ops) = 2 /\ ops[1].inputs \cap ops[2].inputs = {}
    => NoSharedFile /\ SameAsAlone

\* Path.stem with the folder: the path without its last suffix
stem(p) == SubSeq(p, 1, Len(p) - 1)

\* the stems are equal, or one is the other followed by .decoded, .encoded
\* or .map
RelatedStems(a, b) ==
  \/ a = b
  \/ \E x \in {"decoded", "encoded", "map"} : b = Append(a, x) \/ a = Append(b, x)

\* C14: independence across files of unrelated stems.  Two operations none
\* of whose input paths have related stems share no file, and the second
\* logs, reads and writes what it does when run alone; both orders are
\* behaviours of the specification.
C14_IndependenceDistinctStems ==
  Len(ops) = 2
    /\ (\A p \in ops[1].inputs, q \in ops[2].inputs : ~RelatedStems(stem(p), stem(q)))
    => NoSharedFile /\ SameAsAlone

\* C14: B.MSG is handled after an operation on the files of A that trained
\* a mapping, and both wrote
C14_Witness ==
  /\ Len(ops) = 2
  /\ \A p \in ops[1].inputs, q \in ops[2].inputs : ~RelatedStems(stem(p), stem(q))
  /\ ops[2].inputs = {OtherMsgPath}
  /\ ops[2].writes # {} /\ ops[2].err = ""
  /\ MapPath \in ops[1].writes

\* the unit the next iteration of the unit loop takes
NextUnit == al_units[al_b][al_i + 1]

\* an iteration of the unit loop is about to run
InUnitLoop == pc = "units" /\ al_i < Len(al_units[al_b])

\* what every iteration does for a newline code: the cursor steps over one
\* line break if it is at one, and nothing is counted
NewlineStep ==
  /\ al_j' = IF al_j < Len(al_ref) /\ al_ref[al_j + 1] = LF THEN al_j + 1 ELSE al_j
  /\ al_counts' = al_counts
  /\ pc' = "units"

\* C19 as claimed: a newline code steps over at most one line break and
\* counts nothing; any other unit moves the cursor by exactly one character,
\* not a line break, and counts exactly that observation; with no reference
\* character left the block's alignment stops and counts nothing more.
C19_AlignmentStepByOne ==
  [][InUnitLoop =>
       IF NextUnit \in {NEWLINE_000A, NEWLINE_8016} THEN NewlineStep
       ELSE IF al_j < Len(al_ref)
         THEN /\ al_j' = al_j + 1
              /\ al_ref[al_j'] # LF
              /\ al_counts' = Append(al_counts, [u |-> NextUnit, ch |-> al_ref[al_j']])
         ELSE pc' = "zip" /\ al_counts' = al_counts]_vars

\* C19: trainer alignment step.  A newline code steps over at most one line
\* break and counts nothing; any other unit moves the cursor past the line
\* breaks in front of it and past the first character that is not a line
\* break, and counts exactly that observation; when only line breaks or
\* nothing remain, the block's alignment stops and counts nothing more.
C19_AlignmentStep ==
  [][InUnitLoop =>
       IF NextUnit \in {NEWLINE_000A, NEWLINE_8016} THEN NewlineStep
       ELSE IF \E k \in (al_j + 1)..Len(al_ref) : al_ref[k] # LF
         THEN /\ al_j' > al_j
              /\ al_ref[al_j'] # LF
              /\ \A k \in (al_j + 1)..(al_j' - 1) : al_ref[k] = LF
              /\ al_counts' = Append(al_counts, [u |-> NextUnit, ch |-> al_ref[al_j']])
              /\ pc' = "units"
         ELSE pc' = "zip" /\ al_counts' = al_counts /\ al_learned' = al_learned]_vars

\* C19: the first unit of a block, not a newline code, was aligned with the
\* character behind a leading line break of the reference
C19_Witness ==
  /\ pc = "units"
  /\ al_i = 1 /\ al_j = 2
  /\ al_units[al_b][1] \notin {NEWLINE_000A, NEWLINE_8016}
  /\ al_ref[1] = LF
  /\ al_counts # <<>>
  /\ al_counts[Len(al_counts)] = [u |-> al_units[al_b][1], ch |-> al_ref[2]]

\* the units and the characters the alignment counted
SeenUnits == {al_counts[k].u : k \in 1..Len(al_counts)}
SeenChars == {al_counts[k].ch : k \in 1..Len(al_counts)}

\* how often the alignment counted the observation (u, ch)
Seen(u, ch) == Cardinality({k \in 1..Len(al_counts) : al_counts[k] = [u |-> u, ch |-> ch]})

\* the place in alignment order of the first observation (u, ch), and of the
\* first observation of u with any character
FirstPair(u, ch) ==
  CHOOSE k \in 1..Len(al_counts) :
    /\ al_counts[k] = [u |-> u, ch |-> ch]
    /\ \A m \in 1..(k - 1) : al_counts[m] # [u |-> u, ch |-> ch]
FirstOfUnit(u) ==
  CHOOSE k \in 1..Len(al_counts) :
    al_counts[k].u = u /\ \A m \in 1..(k - 1) : al_counts[m].u # u

\* the units with the highest count for ch
TopUnits(ch) == {u \in SeenUnits : \A v \in SeenUnits : Seen(v, ch) <= Seen(u, ch)}

\* the characters with the highest count for u
TopChars(u) == {c \in SeenChars : \A d \in SeenChars : Seen(u, d) <= Seen(u, c)}

\* unit_to_char holds, for every unit seen, the character of the highest
\* count, of several the one whose observation with the unit came first
ForwardTable ==
  /\ DOMAIN al_learned.val.unit_to_char = SeenUnits
  /\ \A u \in SeenUnits :
       \E c \in TopChars(u) :
         /\ al_learned.val.unit_to_char[u] = <<c>>
         /\ \A d \in TopChars(u) : FirstPair(u, c) <= FirstPair(u, d)

\* C17 as claimed: char_to_unit holds, for every character seen, a unit of
\* the highest count for it, of several the one whose observation with the
\* character came first in alignment order, as for unit_to_char.
C17_ReverseTieBreakByPair ==
  pc = "returned"
    => /\ ForwardTable
       /\ DOMAIN al_learned.val.char_to_unit = SeenChars
       /\ \A c \in SeenChars :
            LET u == al_learned.val.char_to_unit[c] IN
              /\ u \in TopUnits(c)
              /\ \A v \in TopUnits(c) : FirstPair(u, c) <= FirstPair(v, c)

\* C17: reverse-table tie-break.  char_to_unit holds, for every character
\* seen, a unit of the highest count for it, of several the one that was
\* seen first in alignment order with any character; unit_to_char holds the
\* character of the highest count, of several the one seen first with the
\* unit.
C17_ReverseTieBreak ==
  pc = "returned"
    => /\ ForwardTable
       /\ DOMAIN al_learned.val.char_to_unit = SeenChars
       /\ \A c \in SeenChars :
            LET u == al_learned.val.char_to_unit[c] IN
              /\ u \in TopUnits(c)
              /\ \A v \in TopUnits(c) : FirstOfUnit(u) <= FirstOfUnit(v)

\* C17: two units tie for a character, and the unit chosen was seen first
\* with another character but later than the other with this one
C17_Witness ==
  /\ pc = "returned"
  /\ \E c \in SeenChars :
       LET u == al_learned.val.char_to_unit[c] IN
         \E v \in TopUnits(c) :
           v # u /\ FirstOfUnit(u) < FirstOfUnit(v) /\ FirstPair(v, c) < FirstPair(u, c)

\* C18: mapping consistency.  For every glyph g of char_to_unit, the unit
\* u = char_to_unit[g] is in unit_to_char, g was counted for u at least
\* once, and unit_to_char[u] is a character counted for u at least once.
C18_MappingConsistency ==
  pc = "returned"
    => \A g \in DOMAIN al_learned.val.char_to_unit :
         LET u == al_learned.val.char_to_unit[g] IN
           /\ u \in DOMAIN al_learned.val.unit_to_char
           /\ Seen(u, g) >= 1
           /\ \E c \in SeenChars :
                al_learned.val.unit_to_char[u] = <<c>> /\ Seen(u, c) >= 1

\* C18: a glyph is encoded as a unit that decodes to another glyph
C18_Witness ==
  /\ pc = "returned"
  /\ \E g \in DOMAIN al_learned.val.char_to_unit :
       al_learned.val.unit_to_char[al_learned.val.char_to_unit[g]] # <<g>>

\* the k-th operation is a drop on duomsgJP that transcoded the file to the
\* end with no usable mapping for it, under the Latin-only rule
LatinOnly(k) ==
  /\ ops[k].kind = "drop" /\ ops[k].tool = "JP" /\ ops[k].err = ""
  /\ \E n \in 1..Len(ops[k].log) :
       ops[k].log[n].line \in {"Decoding MSG -> TXT", "Encoding TXT -> MSG"}
  /\ ~truthy(load_mapping_if_any(ops[k].trained, CHOOSE p \in ops[k].inputs : TRUE))

\* C20: missing mapping is surfaced.  A decode or encode that runs without
\* a usable mapping, the artifact being absent, unreadable or empty, logs a
\* line besides the lines that announce the operation and its output.
C20_MissingMappingSurfaced ==
  \A k \in 1..Len(ops) :
    LatinOnly(k)
      => \E n \in 1..Len(ops[k].log) :
           ops[k].log[n].line \notin {"Decoding MSG -> TXT", "Encoding TXT -> MSG", "Wrote"}


(***************************************************************************)
(* The block table of the containers the encoders return (SpecCodec).      *)
(***************************************************************************)
\* the offset and the length field of the k-th table entry (k from 1) of d
EntryOffset(d, k) == FieldAt(d, 4 * k)
EntryLength(d, k) == FieldAt(d, 4 * k + 2)

\* the number of code units after the header and the table of d
TextAreaLen(d) == (Len(d) - 4 - 4 * FieldAt(d, 2)) \div 2

\* C21: in every container an encoder returns the block table is contiguous
\* and non-overlapping: the first entry has offset 0, each later entry's
\* offset is the previous entry's offset + length, and the last entry's
\* offset + length is the number of code units in the text area.
C21_EncoderBlockLayout ==
  (pc \in {"EN_encoded", "JP_mapped_encoded", "JP_english_encoded"} /\ out.err = "") =>
    LET d == out.val
        n == FieldAt(d, 2)
    IN /\ n >= 1 => EntryOffset(d, 1) = 0
       /\ \A k \in 2..n : EntryOffset(d, k) = EntryOffset(d, k - 1) + EntryLength(d, k - 1)
       /\ n >= 1 => EntryOffset(d, n) + EntryLength(d, n) = TextAreaLen(d)

\* a container of two non-empty blocks returned by the encoder of duomsgEN:
\* the second entry starts where the first ends, after two units
C21_Witness ==
  /\ pc = "EN_encoded"
  /\ out.err = ""
  /\ FieldAt(out.val, 2) = 2
  /\ EntryLength(out.val, 1) = 2
  /\ EntryOffset(out.val, 2) = 2
  /\ EntryLength(out.val, 2) = 1
  /\ TextAreaLen(out.val) = 3

(***************************************************************************)
(* The outputs of the file-level decode and encode (SpecDrop).             *)
(***************************************************************************)
\* C22: existing files are preserved.  The decode or encode of a dropped
\* file never overwrites a file that existed when it started: every file
\* that was there after the automatic training of the drop is there with
\* the same content when the drop is over.
C22_ExistingFilesPreserved ==
  \A k \in 1..Len(ops) :
    ops[k].kind = "drop" =>
      \A p \in DOMAIN ops[k].trained :
        ops[k].trained[p].exists => FileAt(AfterOp(k), p) = ops[k].trained[p]

(***************************************************************************)
(* The reference texts of the automatic training (SpecDrop).               *)
(***************************************************************************)
\* the k-th operation is a file dropped on duomsgJP
DroppedOnJP(k) == ops[k].kind = "drop" /\ ops[k].tool = "JP"

\* the dropped file of the k-th operation and the TXT of its pair
DroppedPath(k) == CHOOSE p \in ops[k].inputs : TRUE
ReferenceTxt(k) == with_suffix(DroppedPath(k), <<"txt">>)

\* the automatic training of the k-th operation saved a mapping artifact
AutoTrained(k) ==
  \E n \in 1..Len(ops[k].log) : ops[k].log[n].line = "Trained per-file JP mapping"

\* the paths the operations before the k-th wrote
WrittenBefore(k) == UNION {ops[j].writes : j \in 1..(k - 1)}

\* the text the k-th operation wrote, a decode that ran to the end
DecodedText(k) ==
  AfterOp(k)[CHOOSE p \in ops[k].writes : suffix_lower(p) = "txt"].content

\* C23: no self-training.  Over any sequence of files dropped on duomsgJP a
\* mapping artifact is only trained from a reference TXT that no earlier
\* drop wrote; and the same .MSG dropped twice, with no sibling .TXT and no
\* mapping artifact beforehand, ends with no mapping artifact for it, the
\* second drop decoding to the same text as the first.
C23_NoSelfTraining ==
  (\A k \in 1..Len(ops) : DroppedOnJP(k)) =>
    /\ \A k \in 1..Len(ops) : AutoTrained(k) => ReferenceTxt(k) \notin WrittenBefore(k)
    /\ ( /\ Len(ops) = 2
         /\ DroppedPath(1) = DroppedPath(2)
         /\ suffix_lower(DroppedPath(1)) = "msg"
         /\ ~path_exists(ops[1].before, ReferenceTxt(1))
         /\ ~path_exists(ops[1].before, map_path_for(DroppedPath(1)))
         /\ ops[1].err = "" /\ ops[1].writes # {} )
        => /\ ~path_exists(fs, map_path_for(DroppedPath(1)))
           /\ ops[2].err = ""
           /\ DecodedText(2) = DecodedText(1)
====
